---- MODULE Spec2Model ----
(***************************************************************************)
(* Verification model of sheetseer's validation core                       *)
(* (src/src/utils/dataProcessing.ts).                                      *)
(*                                                                         *)
(* Strings are sequences of one-character strings, so that trimming,       *)
(* JSON.parse, the range regular expression, parseInt and parseFloat are   *)
(* computed character by character.  A JavaScript number is an integer     *)
(* count of tenths (Scale), so parseInt and parseFloat differ on "1.5".    *)
(***************************************************************************)
EXTENDS Integers, Sequences, FiniteSets, TLC

VARIABLES
  kind,      \* which row validator is running: "clients" | "workers" | "tasks"
  data,      \* the rows data.forEach has visited so far
  records,   \* the output collection (clients / workers / tasks)
  errors,    \* the diagnostics pushed so far
  pc,        \* "rows" | "done" for a validator, "parse" | "parsed" for the parser,
             \* "call" | the function's name for the collection-level functions
  phaseStr,  \* argument of parsePhaseString
  phases,    \* result of parsePhaseString
  clients,   \* Client[] argument of the collection-level functions
  workers,   \* Worker[] argument
  tasks,     \* Task[] argument
  rules,     \* BusinessRule[] argument of validateBusinessRules
  returned,  \* what the called function returned
  weights,   \* Weights: key/value entries in insertion order
  validationErrors,  \* AppState.validationErrors
  isUploading,       \* AppState.isUploading
  main,      \* which handleFileUpload is built: "useState" or "useReducer"
  closure,   \* the collections the running handleFileUpload was created with
  events     \* uploads started, or edits dispatched, so far

vars == <<kind, data, records, errors, pc, phaseStr, phases,
          clients, workers, tasks, rules, returned,
          weights, validationErrors, isUploading, main, closure, events>>

\* the rest of the application state
appVars == <<weights, validationErrors, isUploading, main, closure, events>>

\* no application around the called function
NoApp ==
  /\ weights = <<>>
  /\ validationErrors = <<>>
  /\ isUploading = FALSE
  /\ main = "none"
  /\ closure = <<>>
  /\ events = 0

\* the arguments and result of the collection-level functions
callVars == <<clients, workers, tasks, rules, returned>>

\* the state of the row validators and of the parser
rowVars == <<kind, data, records, errors, phaseStr, phases>>

----------------------------------------------------------------------------
(* Bounds *)

MaxRows == 3        \* rows in one uploaded file
MaxStrLen == 4      \* every string of at most this length is a parsePhaseString input
MaxListLen == 3     \* elements of an explicit list handed to parsePhaseString
MaxPhase == 11      \* largest phase number written in a list or a range input

----------------------------------------------------------------------------
(* JavaScript values and built-ins used by the validators *)

Scale == 10
N(i) == i * Scale

Digits == {"0", "1", "2", "3", "4", "5", "6", "7", "8", "9"}

DigitVal(c) ==
  CASE c = "0" -> 0 [] c = "1" -> 1 [] c = "2" -> 2 [] c = "3" -> 3
    [] c = "4" -> 4 [] c = "5" -> 5 [] c = "6" -> 6 [] c = "7" -> 7
    [] c = "8" -> 8 [] c = "9" -> 9

DigitChar(d) ==
  CASE d = 0 -> "0" [] d = 1 -> "1" [] d = 2 -> "2" [] d = 3 -> "3"
    [] d = 4 -> "4" [] d = 5 -> "5" [] d = 6 -> "6" [] d = 7 -> "7"
    [] d = 8 -> "8" [] d = 9 -> "9"

\* a cell of a row: undefined (column absent), null (empty cell), a string
\* or a number
Undef == [t |-> "undefined", s |-> <<>>, n |-> 0]
Null == [t |-> "null", s |-> <<>>, n |-> 0]
Str(s) == [t |-> "string", s |-> s, n |-> 0]
Num(n) == [t |-> "number", s |-> <<>>, n |-> n]

\* the condition of `if (x)` / `!x` / `x ? a : b`
Truthy(x) ==
  CASE x.t = "string" -> Len(x.s) > 0
    [] x.t = "number" -> x.n # 0
    [] OTHER -> FALSE

\* first index >= i that is not a space, Len(s) + 1 if there is none
RECURSIVE SkipWs(_, _)
SkipWs(s, i) ==
  IF i <= Len(s) /\ s[i] = " " THEN SkipWs(s, i + 1) ELSE i

\* last index <= i that is not a space, 0 if there is none
RECURSIVE SkipWsBack(_, _)
SkipWsBack(s, i) ==
  IF i >= 1 /\ s[i] = " " THEN SkipWsBack(s, i - 1) ELSE i

\* String.prototype.trim
Trim(s) == SubSeq(s, SkipWs(s, 1), SkipWsBack(s, Len(s)))

\* end (exclusive) of the maximal run of digits that starts at i
RECURSIVE DigitRun(_, _)
DigitRun(s, i) ==
  IF i <= Len(s) /\ s[i] \in Digits THEN DigitRun(s, i + 1) ELSE i

\* the integer written by the digits s[i..j-1]
RECURSIVE DigitsVal(_, _, _)
DigitsVal(s, i, j) ==
  IF j <= i THEN 0 ELSE DigitsVal(s, i, j - 1) * 10 + DigitVal(s[j - 1])

\* decimal digits of a natural number
RECURSIVE NatChars(_)
NatChars(k) ==
  IF k < 10 THEN <<DigitChar(k)>> ELSE NatChars(k \div 10) \o <<DigitChar(k % 10)>>

\* String(number)
NumChars(n) ==
  LET a == IF n < 0 THEN 0 - n ELSE n
      sign == IF n < 0 THEN <<"-">> ELSE <<>>
      frac == IF a % Scale = 0 THEN <<>> ELSE <<".", DigitChar(a % Scale)>>
  IN sign \o NatChars(a \div Scale) \o frac

\* String(x)
ToStr(x) ==
  CASE x.t = "string" -> x.s
    [] x.t = "number" -> NumChars(x.n)
    [] x.t = "null" -> <<"n", "u", "l", "l">>
    [] OTHER -> <<"u", "n", "d", "e", "f", "i", "n", "e", "d">>

NaN == [nan |-> TRUE, v |-> 0]
Number(v) == [nan |-> FALSE, v |-> v]

\* parseInt(x): leading whitespace, an optional sign, then the longest run
\* of digits; NaN when there is no digit
ParseInt(x) ==
  LET s == ToStr(x)
      i == SkipWs(s, 1)
      neg == i <= Len(s) /\ s[i] = "-"
      b == IF i <= Len(s) /\ s[i] \in {"-", "+"} THEN i + 1 ELSE i
      e == DigitRun(s, b)
      m == N(DigitsVal(s, b, e))
  IN IF e = b THEN NaN ELSE Number(IF neg THEN 0 - m ELSE m)

\* parseFloat(x): as parseInt, plus an optional fraction (first fractional
\* digit kept: the model's numbers are tenths)
ParseFloat(x) ==
  LET s == ToStr(x)
      i == SkipWs(s, 1)
      neg == i <= Len(s) /\ s[i] = "-"
      b == IF i <= Len(s) /\ s[i] \in {"-", "+"} THEN i + 1 ELSE i
      e == DigitRun(s, b)
      hasDot == e <= Len(s) /\ s[e] = "."
      fe == IF hasDot THEN DigitRun(s, e + 1) ELSE e
      fd == IF hasDot /\ fe > e + 1 THEN DigitVal(s[e + 1]) ELSE 0
      m == N(DigitsVal(s, b, e)) + fd
  IN IF e = b /\ ~(hasDot /\ fe > e + 1) THEN NaN
     ELSE Number(IF neg THEN 0 - m ELSE m)

----------------------------------------------------------------------------
(* JSON.parse: numbers, strings without escapes, arrays, the empty object  *)
(* and the three literals.  A parsed value is summarised by its class      *)
(* ("number" exactly when typeof gives "number", "array" exactly when      *)
(* Array.isArray holds), its numeric value and, for an array, its          *)
(* elements' summaries.                                                    *)

JFail == [ok |-> FALSE, next |-> 0, ty |-> "none", num |-> 0, elems |-> <<>>, str |-> <<>>]
JVal(ty, num, elems, next) ==
  [ok |-> TRUE, next |-> next, ty |-> ty, num |-> num, elems |-> elems, str |-> <<>>]

\* a string value: the characters between its quotes
JString(str, next) ==
  [ok |-> TRUE, next |-> next, ty |-> "string", num |-> 0, elems |-> <<>>, str |-> str]

IsAt(s, i, w) == i + Len(w) - 1 <= Len(s) /\ SubSeq(s, i, i + Len(w) - 1) = w

\* index of the closing quote of the string whose first character is at i
RECURSIVE CloseQuote(_, _)
CloseQuote(s, i) ==
  IF i > Len(s) THEN 0
  ELSE IF s[i] = "\"" THEN i
  ELSE CloseQuote(s, i + 1)

\* -? (0 | [1-9][0-9]*) (. [0-9]+)?
JNumber(s, i) ==
  LET neg == s[i] = "-"
      b == IF neg THEN i + 1 ELSE i
      e == DigitRun(s, b)
      hasDot == e <= Len(s) /\ s[e] = "."
      fe == IF hasDot THEN DigitRun(s, e + 1) ELSE e
      m == N(DigitsVal(s, b, e)) + (IF hasDot /\ fe > e + 1 THEN DigitVal(s[e + 1]) ELSE 0)
  IN IF e = b \/ (s[b] = "0" /\ e > b + 1) \/ (hasDot /\ fe = e + 1) THEN JFail
     ELSE JVal("number", IF neg THEN 0 - m ELSE m, <<>>, fe)

RECURSIVE JValue(_, _)
RECURSIVE JElems(_, _, _)
JValue(s, i) ==
  IF i > Len(s) THEN JFail
  ELSE IF s[i] = "[" THEN
    LET j == SkipWs(s, i + 1)
    IN IF j <= Len(s) /\ s[j] = "]" THEN JVal("array", 0, <<>>, j + 1)
       ELSE JElems(s, j, <<>>)
  ELSE IF s[i] = "\"" THEN
    LET k == CloseQuote(s, i + 1)
    IN IF k = 0 THEN JFail ELSE JString(SubSeq(s, i + 1, k - 1), k + 1)
  ELSE IF s[i] = "{" THEN
    LET j == SkipWs(s, i + 1)
    IN IF j <= Len(s) /\ s[j] = "}" THEN JVal("object", 0, <<>>, j + 1) ELSE JFail
  ELSE IF s[i] \in Digits \cup {"-"} THEN JNumber(s, i)
  ELSE IF IsAt(s, i, <<"n", "u", "l", "l">>) THEN JVal("null", 0, <<>>, i + 4)
  ELSE IF IsAt(s, i, <<"t", "r", "u", "e">>) THEN JVal("boolean", 1, <<>>, i + 4)
  ELSE IF IsAt(s, i, <<"f", "a", "l", "s", "e">>) THEN JVal("boolean", 0, <<>>, i + 5)
  ELSE JFail

JElems(s, i, acc) ==
  LET After(v, j) ==
        IF ~v.ok \/ j > Len(s) THEN JFail
        ELSE IF s[j] = ","
          THEN JElems(s, SkipWs(s, j + 1), Append(acc, [ty |-> v.ty, num |-> v.num, str |-> v.str]))
        ELSE IF s[j] = "]"
          THEN JVal("array", 0, Append(acc, [ty |-> v.ty, num |-> v.num, str |-> v.str]), j + 1)
        ELSE JFail
      Element(v) == After(v, IF v.ok THEN SkipWs(s, v.next) ELSE 0)
  IN Element(JValue(s, i))

\* JSON.parse(text): ok = FALSE stands for the SyntaxError it throws
JSONParse(x) ==
  LET Whole(s, v) == IF v.ok /\ SkipWs(s, v.next) = Len(s) + 1 THEN v ELSE JFail
      Text(s) == Whole(s, JValue(s, SkipWs(s, 1)))
  IN Text(ToStr(x))

\* Array.isArray(v)
IsArray(v) == v.ok /\ v.ty = "array"

\* JSON.stringify of an array of numbers
RECURSIVE JoinNums(_)
JoinNums(ns) ==
  IF Len(ns) = 0 THEN <<>>
  ELSE IF Len(ns) = 1 THEN NumChars(ns[1])
  ELSE NumChars(ns[1]) \o <<",">> \o JoinNums(Tail(ns))

JSONStringify(ns) == <<"[">> \o JoinNums(ns) \o <<"]">>

\* s.match(/^(\d+)\s*-\s*(\d+)$/): the two captured groups
RangeMatch(s) ==
  LET e1 == DigitRun(s, 1)
      h == SkipWs(s, e1)
      b2 == SkipWs(s, h + 1)
      e2 == DigitRun(s, b2)
      m == e1 > 1 /\ h <= Len(s) /\ s[h] = "-" /\ e2 > b2 /\ e2 = Len(s) + 1
  IN [m |-> m,
      g1 |-> IF m THEN SubSeq(s, 1, e1 - 1) ELSE <<>>,
      g2 |-> IF m THEN SubSeq(s, b2, e2 - 1) ELSE <<>>]

\* the loop with i < end in place of i <= end
RECURSIVE RangeList_Exclusive(_, _)
RangeList_Exclusive(start, end) ==
  IF start >= end THEN <<>> ELSE <<start>> \o RangeList_Exclusive(start + N(1), end)

\* for (let i = start; i <= end; i++) slots.push(i)
RECURSIVE RangeList(_, _)
RangeList(start, end) ==
  IF start > end THEN <<>> ELSE <<start>> \o RangeList(start + N(1), end)

\* array.filter(p => typeof p === "number") on parsed elements
RECURSIVE NumbersOf(_)
NumbersOf(elems) ==
  IF Len(elems) = 0 THEN <<>>
  ELSE (IF elems[1].ty = "number" THEN <<elems[1].num>> ELSE <<>>) \o NumbersOf(Tail(elems))

----------------------------------------------------------------------------
(* parsePhaseString *)

parsePhaseString(str) ==
  LET Single(singleNum) == IF ~singleNum.nan THEN <<singleNum.v>> ELSE <<>>
      Range(matched, start, end) ==
        IF matched /\ ~start.nan /\ ~end.nan /\ start.v <= end.v
        THEN RangeList(start.v, end.v)
        ELSE Single(ParseInt(Str(str)))
      Catch(rangeMatch) ==
        Range(rangeMatch.m, ParseInt(Str(rangeMatch.g1)), ParseInt(Str(rangeMatch.g2)))
      Try(parsed) ==
        IF parsed.ok
        THEN IF IsArray(parsed) THEN NumbersOf(parsed.elems) ELSE <<>>
        ELSE Catch(RangeMatch(str))
  IN IF Len(str) = 0 THEN <<>> ELSE Try(JSONParse(Str(str)))

----------------------------------------------------------------------------
(* Row validators: validateClients, validateWorkers, validateTasks *)

NoRow == -1   \* a diagnostic pushed without a rowIndex

\* errors.push({type, message, entity, field, severity: "error", rowIndex})
\* the message is its fixed text followed by the interpolated characters
Diag(type, entity, field, message, rowIndex) ==
  [type |-> type, message |-> message, entity |-> entity, field |-> field,
   severity |-> "error", rowIndex |-> rowIndex]

\* x ? String(x).trim() : ""
TrimOrEmpty(x) == IF Truthy(x) THEN Str(Trim(ToStr(x))) ELSE Str(<<>>)

\* the diagnostic carrying a one-based row number
RequiredString_OneBased(x, entity, field, index) ==
  IF ~Truthy(x)
  THEN [val |-> Undef,
        errs |-> <<Diag("missing_required", entity, field, <<field, " is required">>,
                        index + 1)>>]
  ELSE [val |-> Str(Trim(ToStr(x))), errs |-> <<>>]

\* a required string field: [val, errs]
RequiredString(x, entity, field, index) ==
  IF ~Truthy(x)
  THEN [val |-> Undef,
        errs |-> <<Diag("missing_required", entity, field, <<field, " is required">>, index)>>]
  ELSE [val |-> Str(Trim(ToStr(x))), errs |-> <<>>]

\* the lower bound tested with < 0 in place of < 1
AtLeastOne_AllowsZero(parsed, entity, field, index) ==
  IF parsed.nan
  THEN [val |-> Undef,
        errs |-> <<Diag("invalid_format", entity, field, <<field, " must be a number">>, index)>>]
  ELSE IF parsed.v < 0
  THEN [val |-> Undef,
        errs |-> <<Diag("out_of_range", entity, field, <<field, " must be at least 1">>, index)>>]
  ELSE [val |-> Num(parsed.v), errs |-> <<>>]

\* a numeric field checked by isNaN and then by a lower bound of 1
AtLeastOne(parsed, entity, field, index) ==
  IF parsed.nan
  THEN [val |-> Undef,
        errs |-> <<Diag("invalid_format", entity, field, <<field, " must be a number">>, index)>>]
  ELSE IF parsed.v < N(1)
  THEN [val |-> Undef,
        errs |-> <<Diag("out_of_range", entity, field, <<field, " must be at least 1">>, index)>>]
  ELSE [val |-> Num(parsed.v), errs |-> <<>>]

\* the range branch without its start <= end test
PhaseField_NoOrderCheck(x, entity, field, index) ==
  LET bad(text) == <<Diag("invalid_format", entity, field, <<field, text>>, index)>>
      Range(trimmed, matched, start, end) ==
        IF matched
        THEN [val |-> Str(JSONStringify(RangeList(start.v, end.v))), errs |-> <<>>]
        ELSE [val |-> trimmed,
              errs |-> bad(" must be valid JSON array or range (e.g., '1-3')")]
      Catch(trimmed, rangeMatch) ==
        Range(trimmed, rangeMatch.m,
              ParseInt(Str(rangeMatch.g1)), ParseInt(Str(rangeMatch.g2)))
      Try(trimmed, slots) ==
        IF slots.ok THEN
          IF ~IsArray(slots) \/ \E i \in 1..Len(slots.elems) : slots.elems[i].ty # "number"
          THEN [val |-> trimmed, errs |-> bad(" must be an array of numbers")]
          ELSE [val |-> trimmed, errs |-> <<>>]
        ELSE Catch(trimmed, RangeMatch(trimmed.s))
      Field(trimmed) ==
        IF ~Truthy(trimmed) THEN [val |-> trimmed, errs |-> <<>>]
        ELSE Try(trimmed, JSONParse(trimmed))
  IN Field(TrimOrEmpty(x))

\* AvailableSlots / PreferredPhases: explicit list or range shorthand
PhaseField(x, entity, field, index) ==
  LET bad(text) == <<Diag("invalid_format", entity, field, <<field, text>>, index)>>
      Range(trimmed, matched, start, end) ==
        IF matched THEN
          IF ~start.nan /\ ~end.nan /\ start.v <= end.v
          THEN [val |-> Str(JSONStringify(RangeList(start.v, end.v))), errs |-> <<>>]
          ELSE [val |-> trimmed, errs |-> bad(" range must be valid (e.g., '1-3')")]
        ELSE [val |-> trimmed,
              errs |-> bad(" must be valid JSON array or range (e.g., '1-3')")]
      Catch(trimmed, rangeMatch) ==
        Range(trimmed, rangeMatch.m,
              ParseInt(Str(rangeMatch.g1)), ParseInt(Str(rangeMatch.g2)))
      Try(trimmed, slots) ==
        IF slots.ok THEN
          IF ~IsArray(slots) \/ \E i \in 1..Len(slots.elems) : slots.elems[i].ty # "number"
          THEN [val |-> trimmed, errs |-> bad(" must be an array of numbers")]
          ELSE [val |-> trimmed, errs |-> <<>>]
        ELSE Catch(trimmed, RangeMatch(trimmed.s))
      Field(trimmed) ==
        IF ~Truthy(trimmed) THEN [val |-> trimmed, errs |-> <<>>]
        ELSE Try(trimmed, JSONParse(trimmed))
  IN Field(TrimOrEmpty(x))

\* the catch branch storing "" in place of the raw value
AttributesField_Discard(x, index) ==
  IF ~Truthy(x) THEN [val |-> Str(<<>>), errs |-> <<>>]
  ELSE IF JSONParse(x).ok THEN [val |-> x, errs |-> <<>>]
  ELSE [val |-> Str(<<>>),
        errs |-> <<Diag("invalid_json", "client", "AttributesJSON",
                        <<"AttributesJSON contains invalid JSON">>, index)>>]

\* AttributesJSON: JSON.parse in a try, the raw value kept either way
AttributesField(x, index) ==
  IF ~Truthy(x) THEN [val |-> Str(<<>>), errs |-> <<>>]
  ELSE IF JSONParse(x).ok THEN [val |-> x, errs |-> <<>>]
  ELSE [val |-> x,
        errs |-> <<Diag("invalid_json", "client", "AttributesJSON",
                        <<"AttributesJSON contains invalid JSON">>, index)>>]

\* the body of data.forEach in validateClients: the candidate record, the
\* diagnostics pushed for the row, and whether the candidate is pushed
clientRow(row, index) ==
  LET Result(client, errs) ==
        [rec |-> client, errs |-> errs,
         push |-> Truthy(client.ClientID) /\ Truthy(client.ClientName)
                  /\ Truthy(client.PriorityLevel)]
      Body(id, name, priority, attributes) ==
        IF priority.nan \/ priority.v < N(1) \/ priority.v > N(5)
        THEN Result([ClientID |-> id.val,
                     ClientName |-> name.val,
                     PriorityLevel |-> Undef,
                     RequestedTaskIDs |-> TrimOrEmpty(row.RequestedTaskIDs),
                     GroupTag |-> TrimOrEmpty(row.GroupTag),
                     AttributesJSON |-> attributes.val],
                    id.errs \o name.errs
                    \o <<Diag("out_of_range", "client", "PriorityLevel",
                              <<"PriorityLevel must be between 1 and 5">>, index)>>
                    \o attributes.errs)
        ELSE Result([ClientID |-> id.val,
                     ClientName |-> name.val,
                     PriorityLevel |-> Num(priority.v),
                     RequestedTaskIDs |-> TrimOrEmpty(row.RequestedTaskIDs),
                     GroupTag |-> TrimOrEmpty(row.GroupTag),
                     AttributesJSON |-> attributes.val],
                    id.errs \o name.errs \o attributes.errs)
  IN Body(RequiredString(row.ClientID, "client", "ClientID", index),
          RequiredString(row.ClientName, "client", "ClientName", index),
          ParseInt(row.PriorityLevel),
          AttributesField(row.AttributesJSON, index))

\* the body of data.forEach in validateWorkers
workerRow(row, index) ==
  LET Result(worker, errs) ==
        [rec |-> worker, errs |-> errs,
         push |-> Truthy(worker.WorkerID) /\ Truthy(worker.WorkerName)
                  /\ Truthy(worker.MaxLoadPerPhase)]
      Body(id, name, slots, maxLoad, qualLevel) ==
        Result([WorkerID |-> id.val,
                WorkerName |-> name.val,
                Skills |-> TrimOrEmpty(row.Skills),
                AvailableSlots |-> slots.val,
                MaxLoadPerPhase |-> maxLoad.val,
                WorkerGroup |-> TrimOrEmpty(row.WorkerGroup),
                QualificationLevel |-> IF qualLevel.nan THEN Undef ELSE Num(qualLevel.v)],
               id.errs \o name.errs \o slots.errs \o maxLoad.errs
               \o (IF qualLevel.nan
                   THEN <<Diag("invalid_format", "worker", "QualificationLevel",
                               <<"QualificationLevel must be a number">>, index)>>
                   ELSE <<>>))
  IN Body(RequiredString(row.WorkerID, "worker", "WorkerID", index),
          RequiredString(row.WorkerName, "worker", "WorkerName", index),
          PhaseField(row.AvailableSlots, "worker", "AvailableSlots", index),
          AtLeastOne(ParseInt(row.MaxLoadPerPhase), "worker", "MaxLoadPerPhase", index),
          ParseInt(row.QualificationLevel))

\* the body of data.forEach in validateTasks
taskRow(row, index) ==
  LET Result(task, errs) ==
        [rec |-> task, errs |-> errs,
         push |-> Truthy(task.TaskID) /\ Truthy(task.TaskName) /\ Truthy(task.Duration)]
      Body(id, name, duration, phasesField, maxConcurrent) ==
        Result([TaskID |-> id.val,
                TaskName |-> name.val,
                Category |-> TrimOrEmpty(row.Category),
                Duration |-> duration.val,
                RequiredSkills |-> TrimOrEmpty(row.RequiredSkills),
                PreferredPhases |-> phasesField.val,
                MaxConcurrent |-> maxConcurrent.val],
               id.errs \o name.errs \o duration.errs \o phasesField.errs
               \o maxConcurrent.errs)
  IN Body(RequiredString(row.TaskID, "task", "TaskID", index),
          RequiredString(row.TaskName, "task", "TaskName", index),
          AtLeastOne(ParseFloat(row.Duration), "task", "Duration", index),
          PhaseField(row.PreferredPhases, "task", "PreferredPhases", index),
          AtLeastOne(ParseInt(row.MaxConcurrent), "task", "MaxConcurrent", index))

RowResult(k, row, index) ==
  CASE k = "clients" -> clientRow(row, index)
    [] k = "workers" -> workerRow(row, index)
    [] k = "tasks" -> taskRow(row, index)

Entity(k) ==
  CASE k = "clients" -> "client" [] k = "workers" -> "worker" [] k = "tasks" -> "task"

IdField(k) ==
  CASE k = "clients" -> "ClientID" [] k = "workers" -> "WorkerID" [] k = "tasks" -> "TaskID"

\* clients.map((c) => c.ClientID)
IdsOf(k, recs) == [i \in 1..Len(recs) |-> recs[i][IdField(k)].s]

\* ids.indexOf(id), one-based
IndexOf(ids, id) == CHOOSE i \in 1..Len(ids) : ids[i] = id /\ \A j \in 1..(i - 1) : ids[j] # id

\* ids.filter((id, index) => ids.indexOf(id) !== index)
RECURSIVE DuplicateIdsFrom(_, _)
DuplicateIdsFrom(ids, i) ==
  IF i > Len(ids) THEN <<>>
  ELSE (IF IndexOf(ids, ids[i]) # i THEN <<ids[i]>> ELSE <<>>) \o DuplicateIdsFrom(ids, i + 1)

duplicateIds(ids) == DuplicateIdsFrom(ids, 1)

\* duplicateIds.forEach((id) => errors.push({type: "duplicate_id", ...}))
DuplicateErrors(k, recs) ==
  LET ForEach(dups) ==
        [i \in 1..Len(dups) |->
           Diag("duplicate_id", Entity(k), IdField(k),
                <<"Duplicate ", IdField(k), ": ">> \o dups[i], NoRow)]
  IN ForEach(duplicateIds(IdsOf(k, recs)))

\* data.forEach(...) from index i on, starting with the given collection
RECURSIVE ForEachRow(_, _, _, _, _)
ForEachRow(k, rows, i, recs, errs) ==
  IF i >= Len(rows) THEN [records |-> recs, errors |-> errs]
  ELSE LET Visit(r) ==
             ForEachRow(k, rows, i + 1,
                        IF r.push THEN Append(recs, r.rec) ELSE recs, errs \o r.errs)
       IN Visit(RowResult(k, rows[i + 1], i))

\* the whole validator: the row loop, then the duplicate pass
Validate(k, rows) ==
  LET Return(r) ==
        [records |-> r.records, errors |-> r.errors \o DuplicateErrors(k, r.records)]
  IN Return(ForEachRow(k, rows, 0, <<>>, <<>>))

validateClients(rows) == Validate("clients", rows)
validateWorkers(rows) == Validate("workers", rows)
validateTasks(rows) == Validate("tasks", rows)

----------------------------------------------------------------------------
(* Input rows.  Each row differs from a valid base row in one field (or in  *)
(* two, for the rows that combine a dropped row with a second diagnostic).  *)

Blank == Str(<<" ">>)
IdA == Str(<<"A">>)
IdB == Str(<<"B">>)
IdPaddedA == Str(<<" ", "A">>)
NameN == Str(<<"n">>)
Empty == Str(<<>>)

RangeUp == Str(<<"1", "-", "3">>)
RangeDown == Str(<<"3", "-", "1">>)
RangeSpaced == Str(<<" ", "2", " ", "-", " ", "3", " ">>)
ListNums == Str(<<"[", "1", ",", "2", "]">>)
ListMixed == Str(<<"[", "1", ",", "\"", "a", "\"", "]">>)
NotAList == Str(<<"x">>)
BareNumber == Str(<<"5">>)

BaseClient ==
  [ClientID |-> IdA, ClientName |-> NameN, PriorityLevel |-> Num(N(3)),
   RequestedTaskIDs |-> Undef, GroupTag |-> Str(<<" ", "g">>), AttributesJSON |-> Undef]

ClientRows ==
  {BaseClient}
  \cup {[BaseClient EXCEPT !.ClientID = x] : x \in {Undef, Blank, IdPaddedA, IdB, Num(N(7))}}
  \cup {[BaseClient EXCEPT !.ClientName = x] : x \in {Null, Blank}}
  \cup {[BaseClient EXCEPT !.PriorityLevel = x] :
          x \in {Undef, Num(0), Num(N(6)), Str(<<"x">>), Str(<<"5">>), Num(27)}}
  \cup {[BaseClient EXCEPT !.AttributesJSON = x] :
          x \in {Empty, Str(<<"{", "}">>), Str(<<"[", "1">>)}}
  \cup {[BaseClient EXCEPT !.ClientID = Undef, !.AttributesJSON = Str(<<"{">>)],
        [BaseClient EXCEPT !.ClientID = IdB, !.PriorityLevel = Str(<<"x">>)]}

BaseWorker ==
  [WorkerID |-> IdA, WorkerName |-> NameN, Skills |-> Str(<<"s">>),
   AvailableSlots |-> Undef, MaxLoadPerPhase |-> Num(N(2)),
   WorkerGroup |-> Undef, QualificationLevel |-> Num(N(1))]

WorkerRows ==
  {BaseWorker}
  \cup {[BaseWorker EXCEPT !.WorkerID = x] : x \in {Undef, Blank, IdPaddedA, IdB}}
  \cup {[BaseWorker EXCEPT !.WorkerName = x] : x \in {Undef}}
  \cup {[BaseWorker EXCEPT !.AvailableSlots = x] :
          x \in {RangeUp, RangeDown, RangeSpaced, ListNums, ListMixed, NotAList,
                 BareNumber}}
  \cup {[BaseWorker EXCEPT !.MaxLoadPerPhase = x] :
          x \in {Undef, Null, Num(0), Str(<<"x">>), Num(15)}}
  \cup {[BaseWorker EXCEPT !.QualificationLevel = x] : x \in {Undef}}
  \cup {[BaseWorker EXCEPT !.WorkerID = IdB, !.MaxLoadPerPhase = Undef,
                           !.AvailableSlots = RangeDown]}

BaseTask ==
  [TaskID |-> IdA, TaskName |-> NameN, Category |-> Undef, Duration |-> Num(N(1)),
   RequiredSkills |-> Str(<<"s">>), PreferredPhases |-> Undef,
   MaxConcurrent |-> Num(N(1))]

TaskRows ==
  {BaseTask}
  \cup {[BaseTask EXCEPT !.TaskID = x] : x \in {Undef, Blank, IdB}}
  \cup {[BaseTask EXCEPT !.TaskName = x] : x \in {Undef}}
  \cup {[BaseTask EXCEPT !.Duration = x] :
          x \in {Undef, Empty, Num(0), Num(5), Num(15), Str(<<"x">>)}}
  \cup {[BaseTask EXCEPT !.PreferredPhases = x] :
          x \in {RangeUp, RangeDown, ListNums, ListMixed, NotAList}}
  \cup {[BaseTask EXCEPT !.MaxConcurrent = x] :
          x \in {Undef, Num(0), Str(<<"x">>), Num(25)}}
  \cup {[BaseTask EXCEPT !.TaskID = IdB, !.Duration = Num(0),
                         !.PreferredPhases = RangeDown]}

RowsOf(k) ==
  CASE k = "clients" -> ClientRows
    [] k = "workers" -> WorkerRows
    [] k = "tasks" -> TaskRows

Kinds == {"clients", "workers", "tasks"}

----------------------------------------------------------------------------
(* The row validators as a state machine: one step per visited row, then    *)
(* the duplicate pass and the return.                                       *)

Init ==
  /\ kind \in Kinds
  /\ data = <<>>
  /\ records = <<>>
  /\ errors = <<>>
  /\ pc = "rows"
  /\ phaseStr = <<>>
  /\ phases = <<>>
  /\ clients = <<>> /\ workers = <<>> /\ tasks = <<>> /\ rules = <<>> /\ returned = <<>>
  /\ NoApp

\* the push skipped when the identifier is already in the collection
ProcessRow_SkipDuplicate(row) ==
  /\ pc = "rows"
  /\ Len(data) < MaxRows
  /\ LET Push(r) ==
           /\ errors' = errors \o r.errs
           /\ records' = IF r.push /\ ~\E i \in 1..Len(records) :
                                         records[i][IdField(kind)] = r.rec[IdField(kind)]
                         THEN Append(records, r.rec) ELSE records
     IN Push(RowResult(kind, row, Len(data)))
  /\ data' = Append(data, row)
  /\ UNCHANGED <<kind, pc, phaseStr, phases>>
  /\ UNCHANGED callVars
  /\ UNCHANGED appVars

\* data.forEach((row, index) => { ... }) visits the next row
ProcessRow(row) ==
  /\ pc = "rows"
  /\ Len(data) < MaxRows
  /\ LET Push(r) ==
           /\ errors' = errors \o r.errs
           /\ records' = IF r.push THEN Append(records, r.rec) ELSE records
     IN Push(RowResult(kind, row, Len(data)))
  /\ data' = Append(data, row)
  /\ UNCHANGED <<kind, pc, phaseStr, phases>>
  /\ UNCHANGED callVars
  /\ UNCHANGED appVars

\* no row is left: the duplicate pass, then return { records, errors }
Finish ==
  /\ pc = "rows"
  /\ errors' = errors \o DuplicateErrors(kind, records)
  /\ pc' = "done"
  /\ UNCHANGED <<kind, data, records, phaseStr, phases>>
  /\ UNCHANGED callVars
  /\ UNCHANGED appVars

Next ==
  \/ \E row \in RowsOf(kind) : ProcessRow(row)
  \/ Finish

Spec == Init /\ [][Next]_vars

----------------------------------------------------------------------------
(* Claims about the row validators *)

RequiredFields(k) ==
  CASE k = "clients" -> {"ClientID", "ClientName", "PriorityLevel"}
    [] k = "workers" -> {"WorkerID", "WorkerName", "MaxLoadPerPhase"}
    [] k = "tasks" -> {"TaskID", "TaskName", "Duration"}

RequiredStrings(k) == {IdField(k)} \cup
  (CASE k = "clients" -> {"ClientName"} [] k = "workers" -> {"WorkerName"}
     [] k = "tasks" -> {"TaskName"})

\* a step that visits one row: the row, its zero-based index, the
\* diagnostics it pushed, whether it pushed a record, and that record
RowStep == pc = "rows" /\ Len(data') = Len(data) + 1
TheRow == data'[Len(data')]
TheIndex == Len(data)
NewErrs == SubSeq(errors', Len(errors) + 1, Len(errors'))
Pushed == Len(records') = Len(records) + 1
TheRecord == records'[Len(records')]

\* the diagnostics of the step on one field
OnField(f) == SelectSeq(NewErrs, LAMBDA e : e.field = f)

\* exactly one diagnostic on the field, of that type, at the row's index
ExactlyOne(f, type) ==
  /\ Len(OnField(f)) = 1
  /\ OnField(f)[1].type = type
  /\ OnField(f)[1].severity = "error"
  /\ OnField(f)[1].rowIndex = TheIndex

\* some diagnostic on the field, of that type, at the row's index
Has(f, type) ==
  \E i \in 1..Len(OnField(f)) :
    /\ OnField(f)[i].type = type
    /\ OnField(f)[i].severity = "error"
    /\ OnField(f)[i].rowIndex = TheIndex

\* C1: a row yields a record if and only if no diagnostic was raised at its
\* index on any of its required fields.
C1_IncludedIffRequiredClean ==
  [][RowStep =>
       (Pushed <=> ~\E i \in 1..Len(NewErrs) :
                      /\ NewErrs[i].rowIndex = TheIndex
                      /\ NewErrs[i].field \in RequiredFields(kind))]_vars

\* C2: a row in which a required field (string or numeric) is absent or
\* falsy yields no record and a missing_required error with the row's
\* zero-based index and that field.
C2_MissingRequiredAllFields ==
  [][RowStep =>
       \A f \in RequiredFields(kind) :
         ~Truthy(TheRow[f]) => ~Pushed /\ Has(f, "missing_required")]_vars

\* C2 as amended: a required string field that is absent or falsy gives
\* missing_required; a required numeric field that is absent or falsy
\* drops the row too, with out_of_range (PriorityLevel, or a
\* MaxLoadPerPhase / Duration of 0) or invalid_format (MaxLoadPerPhase /
\* Duration absent or empty) at the row's index and that field.
C2_MissingRequiredAmended ==
  [][RowStep =>
       \A f \in RequiredFields(kind) :
         ~Truthy(TheRow[f]) =>
           /\ ~Pushed
           /\ IF f \in RequiredStrings(kind) THEN Has(f, "missing_required")
              ELSE /\ ~Has(f, "missing_required")
                   /\ IF kind = "clients" \/ TheRow[f].t = "number"
                      THEN Has(f, "out_of_range")
                      ELSE Has(f, "invalid_format")]_vars

C2_Witness ==
  /\ kind = "tasks"
  /\ Len(data) = 2
  /\ ~Truthy(data[1].TaskName)
  /\ ~Truthy(data[2].Duration)
  /\ records = <<>>
  /\ \E i, j \in 1..Len(errors) :
       /\ errors[i].type = "missing_required" /\ errors[i].rowIndex = 0
       /\ errors[i].field = "TaskName"
       /\ errors[j].type = "invalid_format" /\ errors[j].rowIndex = 1
       /\ errors[j].field = "Duration"

\* the message of the duplicate_id diagnostic about an identifier
DupMessage(k, id) == <<"Duplicate ", IdField(k), ": ">> \o id

DupDiags(id) ==
  SelectSeq(errors, LAMBDA e : e.type = "duplicate_id" /\ e.message = DupMessage(kind, id))

Occurrences(id) == Cardinality({i \in 1..Len(records) : records[i][IdField(kind)].s = id})

\* C3: every identifier that occurs more than once among the included
\* records is reported by exactly one duplicate_id diagnostic, however
\* often it occurs, and an identifier that occurs once by none.
C3_OneDiagnosticPerDuplicate ==
  pc = "done" =>
    \A i \in 1..Len(records) :
      LET id == records[i][IdField(kind)].s
      IN Len(DupDiags(id)) = IF Occurrences(id) > 1 THEN 1 ELSE 0

\* the records of the rows, each row validated on its own
RECURSIVE EachAlone(_, _)
EachAlone(k, rows) ==
  IF Len(rows) = 0 THEN <<>>
  ELSE Validate(k, <<Head(rows)>>).records \o EachAlone(k, Tail(rows))

\* C4: duplicates never remove or merge records: the collection is, in
\* input order, the record of every row that yields a record when
\* validated on its own; duplicate_id diagnostics carry no rowIndex; and
\* only included records are counted, so every reported identifier occurs
\* at least twice in the collection.
C4_DuplicatesKeptAndCounted ==
  /\ records = EachAlone(kind, data)
  /\ \A i \in 1..Len(errors) :
       errors[i].type = "duplicate_id" =>
         /\ errors[i].rowIndex = NoRow
         /\ \E j \in 1..Len(records) :
              /\ errors[i].message = DupMessage(kind, records[j][IdField(kind)].s)
              /\ Occurrences(records[j][IdField(kind)].s) >= 2
  /\ pc = "done" =>
       \A j \in 1..Len(records) :
         Occurrences(records[j][IdField(kind)].s) >= 2
           => Len(DupDiags(records[j][IdField(kind)].s)) >= 1

\* two included rows and one dropped row, all with identifier B: one
\* diagnostic, so the dropped row was not counted
C4_Witness ==
  /\ pc = "done"
  /\ Len(data) = 3
  /\ \A i \in 1..3 : Trim(ToStr(data[i][IdField(kind)])) = <<"B">>
  /\ Len(records) = 2
  /\ Len(DupDiags(<<"B">>)) = 1

----------------------------------------------------------------------------
(* Inputs of parsePhaseString: every short string over PhaseAlphabet, the   *)
(* encodings of short lists, the range shorthands and the single integers.  *)

PhaseAlphabet == {"0", "1", "3", "-", " ", "[", "]", ",", "a", "\""}

RECURSIVE StringsUpTo(_)
StringsUpTo(n) ==
  IF n = 0 THEN {<<>>}
  ELSE LET S == StringsUpTo(n - 1)
       IN S \cup {Append(x, c) : x \in {y \in S : Len(y) = n - 1}, c \in PhaseAlphabet}

\* list elements: numbers, the string "a", a nested empty array
NumElem(k) == [ty |-> "number", num |-> N(k)]
StrElem == [ty |-> "string", num |-> 0]
ArrElem == [ty |-> "array", num |-> 0]
ListElems == {NumElem(0), NumElem(1), NumElem(MaxPhase), StrElem, ArrElem}

RECURSIVE ListsUpTo(_)
ListsUpTo(n) ==
  IF n = 0 THEN {<<>>}
  ELSE LET S == ListsUpTo(n - 1)
       IN S \cup {Append(x, e) : x \in {y \in S : Len(y) = n - 1}, e \in ListElems}

ElemLists == ListsUpTo(MaxListLen)

ElemChars(e) ==
  CASE e.ty = "number" -> NumChars(e.num)
    [] e.ty = "string" -> <<"\"", "a", "\"">>
    [] OTHER -> <<"[", "]">>

RECURSIVE JoinElems(_, _)
JoinElems(els, sep) ==
  IF Len(els) = 0 THEN <<>>
  ELSE IF Len(els) = 1 THEN ElemChars(els[1])
  ELSE ElemChars(els[1]) \o sep \o JoinElems(Tail(els), sep)

\* the explicit list encoding of els, elements separated by sep
EncodeList(els, sep) == <<"[">> \o JoinElems(els, sep) \o <<"]">>

Seps == {<<",">>, <<",", " ">>}
Blanks == {<<>>, <<" ">>}

\* the range shorthand a-b with blanks w1, w2 around the hyphen
RangeStr(a, b, w1, w2) == NatChars(a) \o w1 \o <<"-">> \o w2 \o NatChars(b)

PhaseStrings ==
  StringsUpTo(MaxStrLen)
  \cup {EncodeList(els, sep) : els \in ElemLists, sep \in Seps}
  \cup {RangeStr(a, b, w1, w2) : a \in 0..MaxPhase, b \in 0..MaxPhase, w1 \in Blanks, w2 \in Blanks}
  \cup {NatChars(k) : k \in 0..MaxPhase}

InitParse ==
  /\ kind = "none"
  /\ data = <<>>
  /\ records = <<>>
  /\ errors = <<>>
  /\ pc = "parse"
  /\ phaseStr \in PhaseStrings
  /\ phases = <<>>
  /\ clients = <<>> /\ workers = <<>> /\ tasks = <<>> /\ rules = <<>> /\ returned = <<>>
  /\ NoApp

CallParsePhaseString ==
  /\ pc = "parse"
  /\ phases' = parsePhaseString(phaseStr)
  /\ pc' = "parsed"
  /\ UNCHANGED <<kind, data, records, errors, phaseStr>>
  /\ UNCHANGED callVars
  /\ UNCHANGED appVars

NextParse == CallParsePhaseString

SpecParse == InitParse /\ [][NextParse]_vars

----------------------------------------------------------------------------
(* Claims about parsePhaseString *)

\* the numeric elements of a list of elements, in order
NumericElems(els) ==
  LET nums == SelectSeq(els, LAMBDA e : e.ty = "number")
  IN [i \in 1..Len(nums) |-> nums[i].num]

\* the numbers a, a+1, ..., b
Interval(a, b) == [i \in 1..(b - a + 1) |-> N(a + i - 1)]

\* the listed inputs paired with the result the claim gives for them (an
\* input has one expected result: the encodings differ when the lists do)
ListCases ==
  {<<EncodeList(els, sep), NumericElems(els)>> : els \in ElemLists, sep \in Seps}

RangeCases ==
  {<<RangeStr(r[1], r[2], w1, w2), Interval(r[1], r[2])>> :
     r \in {x \in (0..MaxPhase) \X (0..MaxPhase) : x[1] <= x[2]},
     w1 \in Blanks, w2 \in Blanks}

ExpectedCases == ListCases \cup RangeCases \cup {<< <<>>, <<>> >>}

ExpectedInputs == {c[1] : c \in ExpectedCases}

\* C6: parsePhaseString returns a finite sequence of numbers for every
\* input; for an explicit list encoding it returns the list's numeric
\* elements in order, for 'a-b' with a <= b (blanks allowed around the
\* hyphen) it returns a, a+1, ..., b, and for the empty string it returns
\* the empty sequence.
C6_ParseTotalListRange ==
  pc = "parsed" =>
    /\ DOMAIN phases = 1..Len(phases)
    /\ \A i \in 1..Len(phases) : phases[i] \in Int
    /\ phaseStr \in ExpectedInputs => <<phaseStr, phases>> \in ExpectedCases

C6_Witness ==
  /\ pc = "parsed"
  /\ phaseStr = EncodeList(<<NumElem(1), StrElem, NumElem(MaxPhase)>>, <<",">>)
  /\ phases = <<N(1), N(MaxPhase)>>

\* C7: a range shorthand whose start is greater than its end yields the
\* empty sequence.
C7_ReversedRangeEmpty ==
  pc = "parsed" =>
    \A a \in 0..MaxPhase : \A b \in 0..MaxPhase : \A w1 \in Blanks : \A w2 \in Blanks :
      (a > b /\ phaseStr = RangeStr(a, b, w1, w2)) => phases = <<>>

\* C8: a string that is a single integer yields the one-element sequence
\* holding that integer.
C8_SingleInteger ==
  pc = "parsed" =>
    \A k \in 0..MaxPhase : phaseStr = NatChars(k) => phases = <<N(k)>>

----------------------------------------------------------------------------
(* Claims about the phase fields, the numeric fields and AttributesJSON *)

PhaseFieldOf(k) == IF k = "workers" THEN "AvailableSlots" ELSE "PreferredPhases"

RangeInputs ==
  {[s |-> RangeStr(a, b, w1, w2), a |-> a, b |-> b] :
     a \in 0..MaxPhase, b \in 0..MaxPhase, w1 \in Blanks, w2 \in Blanks}

RangeStrs == {r.s : r \in RangeInputs}

MixedLists ==
  {EncodeList(els, sep) :
     els \in {l \in ElemLists : \E i \in 1..Len(l) : l[i].ty # "number"}, sep \in Seps}

\* the phase field of the visited row as typed: its trimmed string
Typed(f) == IF Truthy(TheRow[f]) THEN Trim(ToStr(TheRow[f])) ELSE <<>>

\* the row is pushed exactly when it would be with field f left out
NotDroppedFor(f) ==
  Pushed <=> RowResult(kind, [TheRow EXCEPT ![f] = Undef], TheIndex).push

\* C5: in AvailableSlots and PreferredPhases, 'a-b' with a <= b is stored
\* as the explicit list a, ..., b without a diagnostic; 'a-b' with a > b
\* stays the trimmed original string with exactly one invalid_format error
\* at the row's index; an explicit list with a non-numeric element raises
\* exactly one invalid_format error; and none of these changes whether the
\* row is included.
C5_PhaseFieldRangeAndList ==
  [][(RowStep /\ kind \in {"workers", "tasks"}) =>
       LET f == PhaseFieldOf(kind)
           typed == Typed(f)
       IN typed # <<>> =>
            /\ typed \in RangeStrs => \A r \in RangeInputs :
                 r.s = typed =>
                   /\ NotDroppedFor(f)
                   /\ IF r.a <= r.b
                      THEN /\ OnField(f) = <<>>
                           /\ Pushed => TheRecord[f] =
                                Str(EncodeList([i \in 1..(r.b - r.a + 1) |-> NumElem(r.a + i - 1)],
                                               <<",">>))
                      ELSE /\ ExactlyOne(f, "invalid_format")
                           /\ Pushed => TheRecord[f] = Str(typed)
            /\ typed \in MixedLists =>
                 /\ NotDroppedFor(f)
                 /\ ExactlyOne(f, "invalid_format")]_vars

\* an included worker whose reversed range was kept with its diagnostic,
\* after one whose range was rewritten
C5_Witness ==
  /\ kind = "workers"
  /\ Len(data) = 2 /\ Len(records) = 2
  /\ data[1].AvailableSlots = RangeSpaced
  /\ records[1].AvailableSlots = Str(<<"[", "2", ",", "3", "]">>)
  /\ data[2].AvailableSlots = RangeDown
  /\ records[2].AvailableSlots = RangeDown
  /\ \E i \in 1..Len(errors) :
       /\ errors[i].type = "invalid_format" /\ errors[i].field = "AvailableSlots"
       /\ errors[i].rowIndex = 1

\* the bounded numeric fields: the parse applied and the bounds
BoundedFields(k) ==
  CASE k = "clients" -> {"PriorityLevel"}
    [] k = "workers" -> {"MaxLoadPerPhase"}
    [] k = "tasks" -> {"Duration", "MaxConcurrent"}

ParsedField(f, x) == IF f = "Duration" THEN ParseFloat(x) ELSE ParseInt(x)

InBound(f, v) == v >= N(1) /\ (f = "PriorityLevel" => v <= N(5))

\* the diagnostics and the stored value of a bounded numeric field, given
\* the type raised for an unparsable value
NumericFieldPolicy(f, unparsable) ==
  LET p == ParsedField(f, TheRow[f])
  IN IF p.nan THEN ExactlyOne(f, unparsable)
     ELSE IF ~InBound(f, p.v) THEN ExactlyOne(f, "out_of_range")
     ELSE /\ OnField(f) = <<>>
          /\ Pushed => TheRecord[f] = Num(p.v)

\* C9: for every bounded numeric field an unparsable value raises exactly
\* one invalid_format error at the row's index, a parsed value outside the
\* bound exactly one out_of_range error, and a parsed value inside the
\* bound no diagnostic and is stored as the parsed number.
C9_NumericFieldPolicy ==
  [][RowStep => \A f \in BoundedFields(kind) : NumericFieldPolicy(f, "invalid_format")]_vars

\* C9 as amended: as C9 for MaxLoadPerPhase, Duration and MaxConcurrent;
\* an unparsable PriorityLevel raises exactly one out_of_range error, as a
\* PriorityLevel outside 1..5 does.
C9_NumericFieldPolicyAmended ==
  [][RowStep =>
       \A f \in BoundedFields(kind) :
         NumericFieldPolicy(f, IF f = "PriorityLevel" THEN "out_of_range"
                               ELSE "invalid_format")]_vars

C9_Witness ==
  /\ kind = "clients"
  /\ Len(data) = 3
  /\ data[1].PriorityLevel = Str(<<"x">>)
  /\ data[2].PriorityLevel = Num(N(6))
  /\ data[3].PriorityLevel = Num(27)
  /\ Len(records) = 1
  /\ records[1].PriorityLevel = Num(N(2))
  /\ Len(errors) = 2
  /\ \A i \in 1..2 : errors[i].type = "out_of_range" /\ errors[i].rowIndex = i - 1

\* C10: a non-empty AttributesJSON that is not valid JSON raises exactly
\* one invalid_json error at the row's index, does not change whether the
\* row is included, and is stored as the raw value; an absent or empty
\* AttributesJSON is stored as the empty string without a diagnostic.
C10_AttributesJSON ==
  [][(RowStep /\ kind = "clients") =>
       LET raw == TheRow.AttributesJSON
       IN IF ~Truthy(raw)
          THEN /\ OnField("AttributesJSON") = <<>>
               /\ Pushed => TheRecord.AttributesJSON = Str(<<>>)
          ELSE /\ ~JSONParse(raw).ok =>
                    /\ ExactlyOne("AttributesJSON", "invalid_json")
                    /\ NotDroppedFor("AttributesJSON")
               /\ Pushed => TheRecord.AttributesJSON = raw]_vars

C10_Witness ==
  /\ kind = "clients"
  /\ Len(data) = 2 /\ Len(records) = 2
  /\ data[1].AttributesJSON = Str(<<"[", "1">>)
  /\ records[1].AttributesJSON = Str(<<"[", "1">>)
  /\ \E i \in 1..Len(errors) : errors[i].type = "invalid_json" /\ errors[i].rowIndex = 0
  /\ data[2].AttributesJSON = Undef
  /\ records[2].AttributesJSON = Str(<<>>)

(***************************************************************************)
(* Collection-level functions: validateCrossReferences                     *)
(***************************************************************************)

\* s.split(","): the pieces between the commas ("" gives one empty piece)
RECURSIVE SplitFrom(_, _, _)
SplitFrom(s, i, piece) ==
  IF i > Len(s) THEN <<piece>>
  ELSE IF s[i] = "," THEN <<piece>> \o SplitFrom(s, i + 1, <<>>)
  ELSE SplitFrom(s, i + 1, Append(piece, s[i]))

\* s.split(",").map((x) => x.trim())
SplitTrim(s) ==
  LET Map(pieces) == [i \in 1..Len(pieces) |-> Trim(pieces[i])]
  IN Map(SplitFrom(s, 1, <<>>))

\* new Set(array)
Elements(seq) == {seq[i] : i \in 1..Len(seq)}

\* the pushes of the iterations of a forEach, one after the other
RECURSIVE Flatten(_)
Flatten(ss) == IF Len(ss) = 0 THEN <<>> ELSE Head(ss) \o Flatten(Tail(ss))

NoField == "none"   \* a diagnostic pushed without a field

\* errors.push({type, message, entity, field, severity}) without a rowIndex
CrossDiag(type, entity, field, severity, message) ==
  [type |-> type, message |-> message, entity |-> entity, field |-> field,
   severity |-> severity, rowIndex |-> NoRow]

\* the value of `x ? JSON.parse(x) : []`
EmptyArray == JVal("array", 0, <<>>, 0)
ParseOrEmpty(x) == IF Truthy(x) THEN JSONParse(x) ELSE EmptyArray

\* v.length: defined for arrays and strings; reading it from null throws
HasLength(v) == v.ty \in {"array", "string"}
Length(v) == IF v.ty = "array" THEN Len(v.elems) ELSE Len(v.str)

\* the comparison made by Array.prototype.includes
SameValueZero(a, b) ==
  /\ a.ty = b.ty
  /\ CASE a.ty = "number" -> a.num = b.num
       [] a.ty = "string" -> a.str = b.str
       [] a.ty = "boolean" -> a.num = b.num
       [] a.ty = "null" -> TRUE
       [] OTHER -> FALSE

\* String(element), the coercion made by String.prototype.includes
ElemText(e) ==
  CASE e.ty = "number" -> NumChars(e.num)
    [] e.ty = "string" -> e.str
    [] e.ty = "null" -> <<"n", "u", "l", "l">>
    [] e.ty = "boolean" ->
         IF e.num = 1 THEN <<"t", "r", "u", "e">> ELSE <<"f", "a", "l", "s", "e">>
    [] e.ty = "array" -> <<>>
    [] OTHER -> <<"[", "o", "b", "j", "e", "c", "t", " ", "O", "b", "j", "e", "c", "t", "]">>

IsSubstring(needle, hay) ==
  \E i \in 0..(Len(hay) - Len(needle)) : SubSeq(hay, i + 1, i + Len(needle)) = needle

\* workerSlots.includes(phase), for an array or a string
Includes(workerSlots, phase) ==
  IF workerSlots.ty = "array"
  THEN \E i \in 1..Len(workerSlots.elems) : SameValueZero(workerSlots.elems[i], phase)
  ELSE IsSubstring(ElemText(phase), workerSlots.str)

\* new Set(tasks.map((t) => t.TaskID))
TaskIdSet(ts) == {ts[i].TaskID.s : i \in 1..Len(ts)}

\* new Set(workers.flatMap((w) => w.Skills.split(",").map((s) => s.trim())))
WorkerSkillSet(ws) == UNION {Elements(SplitTrim(ws[i].Skills.s)) : i \in 1..Len(ws)}

\* new Set(workers.map((w) => w.WorkerGroup))
WorkerGroupSet(ws) == {ws[i].WorkerGroup.s : i \in 1..Len(ws)}

\* the requested ids compared as split, without the trim
UnknownReferences_Untrimmed(cs, taskIds) ==
  LET Requested(client, requestedIds) ==
        Flatten([k \in 1..Len(requestedIds) |->
                   IF requestedIds[k] \notin taskIds
                   THEN <<CrossDiag("unknown_reference", "client", "RequestedTaskIDs", "error",
                                    <<"Client ">> \o ToStr(client.ClientID)
                                    \o <<" requests unknown task: ">> \o requestedIds[k])>>
                   ELSE <<>>])
      Client(client) ==
        IF Truthy(client.RequestedTaskIDs)
        THEN Requested(client, SplitFrom(client.RequestedTaskIDs.s, 1, <<>>))
        ELSE <<>>
  IN Flatten([i \in 1..Len(cs) |-> Client(cs[i])])

\* clients.forEach: one unknown_reference per requested id that is no TaskID
UnknownReferences(cs, taskIds) ==
  LET Requested(client, requestedIds) ==
        Flatten([k \in 1..Len(requestedIds) |->
                   IF requestedIds[k] \notin taskIds
                   THEN <<CrossDiag("unknown_reference", "client", "RequestedTaskIDs", "error",
                                    <<"Client ">> \o ToStr(client.ClientID)
                                    \o <<" requests unknown task: ">> \o requestedIds[k])>>
                   ELSE <<>>])
      Client(client) ==
        IF Truthy(client.RequestedTaskIDs)
        THEN Requested(client, SplitTrim(client.RequestedTaskIDs.s))
        ELSE <<>>
  IN Flatten([i \in 1..Len(cs) |-> Client(cs[i])])

\* the required skills compared as one string, without the split
SkillCoverage_Unsplit(ts, workerSkills) ==
  LET Required(task, requiredSkills) ==
        Flatten([k \in 1..Len(requiredSkills) |->
                   IF requiredSkills[k] \notin workerSkills
                   THEN <<CrossDiag("skill_coverage", "task", "RequiredSkills", "error",
                                    <<"Task ">> \o ToStr(task.TaskID) \o <<" requires skill \"">>
                                    \o requiredSkills[k] \o <<"\" but no worker has it">>)>>
                   ELSE <<>>])
      Task(task) ==
        IF Truthy(task.RequiredSkills)
        THEN Required(task, <<Trim(task.RequiredSkills.s)>>)
        ELSE <<>>
  IN Flatten([i \in 1..Len(ts) |-> Task(ts[i])])

\* tasks.forEach: one skill_coverage per required skill no worker holds
SkillCoverage(ts, workerSkills) ==
  LET Required(task, requiredSkills) ==
        Flatten([k \in 1..Len(requiredSkills) |->
                   IF requiredSkills[k] \notin workerSkills
                   THEN <<CrossDiag("skill_coverage", "task", "RequiredSkills", "error",
                                    <<"Task ">> \o ToStr(task.TaskID) \o <<" requires skill \"">>
                                    \o requiredSkills[k] \o <<"\" but no worker has it">>)>>
                   ELSE <<>>])
      Task(task) ==
        IF Truthy(task.RequiredSkills)
        THEN Required(task, SplitTrim(task.RequiredSkills.s))
        ELSE <<>>
  IN Flatten([i \in 1..Len(ts) |-> Task(ts[i])])

\* taskSkills.every((skill) => workerSkillSet.has(skill))
HoldsAll(worker, task) ==
  Elements(SplitTrim(task.RequiredSkills.s)) \subseteq Elements(SplitTrim(worker.Skills.s))

\* workers.filter((worker) => taskSkills.every(...))
qualifiedWorkers(ws, task) == SelectSeq(ws, LAMBDA worker : HoldsAll(worker, task))

\* the callback of qualifiedWorkers.some for one worker: "true", "false",
\* or "throw" (JSON.parse failed, or some / includes is not a function)
WorkerAvailable(worker, preferredPhases) ==
  LET Slots(workerSlots) ==
        IF ~workerSlots.ok THEN "throw"
        ELSE IF preferredPhases.ty # "array" THEN "throw"
        ELSE IF ~HasLength(workerSlots) THEN "throw"
        ELSE IF \E i \in 1..Len(preferredPhases.elems) :
                  Includes(workerSlots, preferredPhases.elems[i])
        THEN "true" ELSE "false"
  IN Slots(ParseOrEmpty(worker.AvailableSlots))

\* qualifiedWorkers.some(...): the workers are visited in order until one
\* answers true or throws
RECURSIVE SomeAvailable(_, _, _)
SomeAvailable(qualified, i, preferredPhases) ==
  IF i > Len(qualified) THEN "false"
  ELSE LET Visit(r) ==
             IF r = "false" THEN SomeAvailable(qualified, i + 1, preferredPhases) ELSE r
       IN Visit(WorkerAvailable(qualified[i], preferredPhases))

\* tasks.forEach with its try / catch: one phase_availability warning when
\* no qualified worker is available, nothing when anything throws
PhaseAvailability(ts, ws) ==
  LET Warning(task) ==
        <<CrossDiag("phase_availability", "task", "PreferredPhases", "warning",
                    <<"Task ">> \o ToStr(task.TaskID)
                    \o <<" has preferred phases but no qualified workers available in those phases">>)>>
      Outcome(task, hasAvailableWorkers) ==
        IF hasAvailableWorkers = "false" THEN Warning(task) ELSE <<>>
      Try(task, preferredPhases) ==
        IF ~preferredPhases.ok \/ preferredPhases.ty = "null" THEN <<>>
        ELSE IF HasLength(preferredPhases) /\ Length(preferredPhases) > 0
        THEN Outcome(task, SomeAvailable(qualifiedWorkers(ws, task), 1, preferredPhases))
        ELSE <<>>
  IN Flatten([i \in 1..Len(ts) |-> Try(ts[i], ParseOrEmpty(ts[i].PreferredPhases))])

\* the test without `client.GroupTag &&`
GroupReferences_EmptyToo(cs, workerGroups) ==
  LET Client(client) ==
        IF client.GroupTag.s \notin workerGroups
        THEN <<CrossDiag("group_reference", "client", "GroupTag", "warning",
                         <<"Client ">> \o ToStr(client.ClientID) \o <<" has GroupTag '">>
                         \o client.GroupTag.s
                         \o <<"' but no workers belong to this group">>)>>
        ELSE <<>>
  IN Flatten([i \in 1..Len(cs) |-> Client(cs[i])])

\* clients.forEach: one group_reference warning per client whose GroupTag
\* is set and is no worker's WorkerGroup
GroupReferences(cs, workerGroups) ==
  LET Client(client) ==
        IF Truthy(client.GroupTag) /\ client.GroupTag.s \notin workerGroups
        THEN <<CrossDiag("group_reference", "client", "GroupTag", "warning",
                         <<"Client ">> \o ToStr(client.ClientID) \o <<" has GroupTag '">>
                         \o client.GroupTag.s
                         \o <<"' but no workers belong to this group">>)>>
        ELSE <<>>
  IN Flatten([i \in 1..Len(cs) |-> Client(cs[i])])

validateCrossReferences(cs, ws, ts) ==
  UnknownReferences(cs, TaskIdSet(ts))
  \o SkillCoverage(ts, WorkerSkillSet(ws))
  \o PhaseAvailability(ts, ws)
  \o GroupReferences(cs, WorkerGroupSet(ws))

(***************************************************************************)
(* Collections handed to validateCrossReferences: what the row validators  *)
(* return for a few rows                                                   *)
(***************************************************************************)

MaxClients == 2
MaxWorkers == 2
MaxTasks == 2

SeqsUpTo(S, n) == UNION {[1..k -> S] : k \in 0..n}

CrossClientRows ==
  {[BaseClient EXCEPT !.RequestedTaskIDs = Str(<<"T", ",", " ", "X">>),
                      !.GroupTag = Str(<<"G">>)],
   [BaseClient EXCEPT !.ClientID = IdB],
   [BaseClient EXCEPT !.RequestedTaskIDs = Str(<<"t", ",", "T">>), !.GroupTag = Undef]}

CrossWorkerRows ==
  {[BaseWorker EXCEPT !.Skills = Str(<<"a", ",", "b">>),
                      !.AvailableSlots = Str(<<"[", "1", "]">>),
                      !.WorkerGroup = Str(<<"G">>)],
   [BaseWorker EXCEPT !.WorkerID = IdB, !.Skills = Str(<<"a">>),
                      !.AvailableSlots = Str(<<"[", "2", "]">>),
                      !.WorkerGroup = Str(<<"g">>)],
   [BaseWorker EXCEPT !.Skills = Str(<<"b", " ", ",", "a">>),
                      !.AvailableSlots = RangeDown],
   [BaseWorker EXCEPT !.Skills = Undef,
                      !.AvailableSlots = Str(<<"2", "-", "3">>),
                      !.WorkerGroup = Str(<<"G">>)]}

CrossTaskRows ==
  {[BaseTask EXCEPT !.TaskID = Str(<<"T">>), !.RequiredSkills = Str(<<"a", ",", " ", "b">>),
                    !.PreferredPhases = Str(<<"1", "-", "2">>)],
   [BaseTask EXCEPT !.TaskID = Str(<<"X">>), !.RequiredSkills = Undef,
                    !.PreferredPhases = Str(<<"[", "2", "]">>)],
   [BaseTask EXCEPT !.TaskID = Str(<<"T">>), !.RequiredSkills = Str(<<"A">>)]}

CrossClients == {validateClients(rows).records : rows \in SeqsUpTo(CrossClientRows, MaxClients)}
CrossWorkers == {validateWorkers(rows).records : rows \in SeqsUpTo(CrossWorkerRows, MaxWorkers)}
CrossTasks == {validateTasks(rows).records : rows \in SeqsUpTo(CrossTaskRows, MaxTasks)}

InitCross ==
  /\ kind = "none"
  /\ data = <<>> /\ records = <<>> /\ errors = <<>>
  /\ phaseStr = <<>> /\ phases = <<>>
  /\ pc = "call"
  /\ clients \in CrossClients
  /\ workers \in CrossWorkers
  /\ tasks \in CrossTasks
  /\ rules = <<>>
  /\ returned = <<>>
  /\ NoApp

CallValidateCrossReferences ==
  /\ pc = "call"
  /\ returned' = validateCrossReferences(clients, workers, tasks)
  /\ pc' = "validateCrossReferences"
  /\ UNCHANGED <<clients, workers, tasks, rules>>
  /\ UNCHANGED rowVars
  /\ UNCHANGED appVars

NextCross == CallValidateCrossReferences

SpecCross == InitCross /\ [][NextCross]_vars

(***************************************************************************)
(* Claims on validateCrossReferences                                       *)
(***************************************************************************)

\* the returned diagnostics of one type, and how many carry a message
OfType(type) == SelectSeq(returned, LAMBDA e : e.type = type)
CountMessage(type, message) ==
  Cardinality({i \in 1..Len(returned) :
                 returned[i].type = type /\ returned[i].message = message})

\* the comma-separated trimmed entries of a field; none when it is empty
EntriesOf(cell) == IF Len(cell.s) = 0 THEN <<>> ELSE SplitTrim(cell.s)

\* (client, entry) pairs whose entry is no task's TaskID
UnmatchedRequests ==
  UNION {{<<i, k>> : k \in {k \in 1..Len(EntriesOf(clients[i].RequestedTaskIDs)) :
                              \A j \in 1..Len(tasks) :
                                tasks[j].TaskID.s # EntriesOf(clients[i].RequestedTaskIDs)[k]}} :
         i \in 1..Len(clients)}

UnknownMessage(p) ==
  <<"Client ">> \o clients[p[1]].ClientID.s \o <<" requests unknown task: ">>
  \o EntriesOf(clients[p[1]].RequestedTaskIDs)[p[2]]

UncoveredSkills ==
  UNION {{<<i, k>> : k \in {k \in 1..Len(EntriesOf(tasks[i].RequiredSkills)) :
                              \A w \in 1..Len(workers) :
                                \A j \in 1..Len(SplitTrim(workers[w].Skills.s)) :
                                  SplitTrim(workers[w].Skills.s)[j]
                                    # EntriesOf(tasks[i].RequiredSkills)[k]}} :
         i \in 1..Len(tasks)}

CoverageMessage(p) ==
  <<"Task ">> \o tasks[p[1]].TaskID.s \o <<" requires skill \"">>
  \o EntriesOf(tasks[p[1]].RequiredSkills)[p[2]] \o <<"\" but no worker has it">>

PhaseSet(cell) ==
  LET Listed(v) ==
        IF IsArray(v)
        THEN {v.elems[k].num : k \in {k \in 1..Len(v.elems) : v.elems[k].ty = "number"}}
        ELSE {}
  IN Listed(ParseOrEmpty(cell))

\* the tasks with a non-empty preferred-phase set
PhaseTasks == {i \in 1..Len(tasks) : PhaseSet(tasks[i].PreferredPhases) # {}}

\* the worker holds every required skill of the task (none required: any worker)
Holds(worker, task) ==
  Elements(EntriesOf(task.RequiredSkills)) \subseteq Elements(EntriesOf(worker.Skills))

\* no worker holding the task's required skills has a slot among its phases
NoneAvailable(i) ==
  ~\E w \in 1..Len(workers) :
      /\ Holds(workers[w], tasks[i])
      /\ PhaseSet(workers[w].AvailableSlots) \cap PhaseSet(tasks[i].PreferredPhases) # {}

AvailabilityMessage(i) ==
  <<"Task ">> \o tasks[i].TaskID.s
  \o <<" has preferred phases but no qualified workers available in those phases">>

\* C13: for a task with a non-empty preferred-phase set, a
\* phase_availability warning is emitted if and only if no worker holding
\* all of the task's required skills (every worker, when the task requires
\* none) has an available slot among the task's preferred phases.
C13_PhaseAvailabilityIff ==
  pc = "validateCrossReferences" =>
    \A i \in PhaseTasks :
      CountMessage("phase_availability", AvailabilityMessage(i))
        = Cardinality({j \in PhaseTasks :
                         tasks[j].TaskID = tasks[i].TaskID /\ NoneAvailable(j)})

\* the clients whose GroupTag is set and is no worker's WorkerGroup
UnmatchedGroups ==
  {i \in 1..Len(clients) :
     /\ Len(clients[i].GroupTag.s) > 0
     /\ \A w \in 1..Len(workers) : workers[w].WorkerGroup.s # clients[i].GroupTag.s}

GroupMessage(i) ==
  <<"Client ">> \o clients[i].ClientID.s \o <<" has GroupTag '">> \o clients[i].GroupTag.s
  \o <<"' but no workers belong to this group">>

LessThan(count, cell) == cell.t = "number" /\ N(count) < cell.n

\* the comparison written with <=
WorkerOverload_OrEqual(worker) ==
  LET Try(availableSlots) ==
        IF ~availableSlots.ok \/ availableSlots.ty = "null" THEN <<>>
        ELSE IF HasLength(availableSlots)
                /\ worker.MaxLoadPerPhase.t = "number"
                /\ N(Length(availableSlots)) <= worker.MaxLoadPerPhase.n
        THEN <<CrossDiag("worker_overload", "worker", "MaxLoadPerPhase", "warning",
                         <<"Worker ">> \o ToStr(worker.WorkerID)
                         \o <<" has more MaxLoadPerPhase (">> \o ToStr(worker.MaxLoadPerPhase)
                         \o <<") than AvailableSlots (">> \o NatChars(Length(availableSlots))
                         \o <<")">>)>>
        ELSE <<>>
  IN Try(ParseOrEmpty(worker.AvailableSlots))

\* one iteration of workers.forEach in checkWorkerOverload, with its
\* try / catch
WorkerOverload(worker) ==
  LET Try(availableSlots) ==
        IF ~availableSlots.ok \/ availableSlots.ty = "null" THEN <<>>
        ELSE IF HasLength(availableSlots)
                /\ LessThan(Length(availableSlots), worker.MaxLoadPerPhase)
        THEN <<CrossDiag("worker_overload", "worker", "MaxLoadPerPhase", "warning",
                         <<"Worker ">> \o ToStr(worker.WorkerID)
                         \o <<" has more MaxLoadPerPhase (">> \o ToStr(worker.MaxLoadPerPhase)
                         \o <<") than AvailableSlots (">> \o NatChars(Length(availableSlots))
                         \o <<")">>)>>
        ELSE <<>>
  IN Try(ParseOrEmpty(worker.AvailableSlots))

checkWorkerOverload(ws) == Flatten([i \in 1..Len(ws) |-> WorkerOverload(ws[i])])

\* a Record<number, number>: its properties in insertion order, the key of
\* each being the string the index was converted to
HasKey(map, key) == \E i \in 1..Len(map) : map[i].key = key

\* map[key] || 0
GetOrZero(map, key) ==
  IF HasKey(map, key) THEN map[CHOOSE i \in 1..Len(map) : map[i].key = key].val ELSE 0

\* map[key] = (map[key] || 0) + amount
AddAt(map, key, amount) ==
  IF HasKey(map, key)
  THEN [i \in 1..Len(map) |->
          IF map[i].key = key THEN [key |-> key, val |-> map[i].val + amount] ELSE map[i]]
  ELSE Append(map, [key |-> key, val |-> amount])

\* keys.forEach((key) => { map[key] = (map[key] || 0) + amount })
RECURSIVE AddEach(_, _, _)
AddEach(map, keys, amount) ==
  IF Len(keys) = 0 THEN map ELSE AddEach(AddAt(map, Head(keys), amount), Tail(keys), amount)

\* an array-index property name: these are enumerated first, ascending
IsIndexKey(key) ==
  /\ Len(key) > 0
  /\ \A i \in 1..Len(key) : key[i] \in Digits
  /\ (Len(key) = 1 \/ key[1] # "0")

RECURSIVE Ascending(_)
Ascending(S) ==
  IF S = {} THEN <<>>
  ELSE LET Least(x) == <<x>> \o Ascending(S \ {x})
       IN Least(CHOOSE x \in S : \A y \in S : x <= y)

\* Object.keys(map): index keys ascending, then the others as inserted
ObjectKeys(map) ==
  LET Index(sorted) == [i \in 1..Len(sorted) |-> NatChars(sorted[i])]
      Others(rest) == [i \in 1..Len(rest) |-> rest[i].key]
  IN Index(Ascending({DigitsVal(map[i].key, 1, Len(map[i].key) + 1) :
                        i \in {i \in 1..Len(map) : IsIndexKey(map[i].key)}}))
     \o Others(SelectSeq(map, LAMBDA e : ~IsIndexKey(e.key)))

\* String(parseInt(key)): the property name phaseSlotUsage[parseInt(phase)] uses
ParseIntKey(key) ==
  LET Name(phaseNum) == IF phaseNum.nan THEN <<"N", "a", "N">> ELSE NumChars(phaseNum.v)
  IN Name(ParseInt(Str(key)))

\* the property names an array's elements are converted to
ElementKeys(v) == [k \in 1..Len(v.elems) |-> ElemText(v.elems[k])]

\* workers.forEach: MaxLoadPerPhase added to every listed slot; a value
\* that does not parse, or is no array, throws and is skipped
RECURSIVE PhaseWorkerSlots(_, _, _)
PhaseWorkerSlots(ws, i, map) ==
  IF i > Len(ws) THEN map
  ELSE LET Try(availableSlots) ==
             IF IsArray(availableSlots)
             THEN AddEach(map, ElementKeys(availableSlots), ws[i].MaxLoadPerPhase.n)
             ELSE map
       IN PhaseWorkerSlots(ws, i + 1, Try(ParseOrEmpty(ws[i].AvailableSlots)))

\* tasks.forEach: Duration added to every preferred phase, or to every
\* phase with worker slots when the list is empty
RECURSIVE PhaseSlotUsage(_, _, _, _)
PhaseSlotUsage(ts, i, phaseWorkerSlots, map) ==
  IF i > Len(ts) THEN map
  ELSE LET AnyPhase(keys) == [k \in 1..Len(keys) |-> ParseIntKey(keys[k])]
           Try(preferredPhases) ==
             IF ~preferredPhases.ok \/ preferredPhases.ty = "null" THEN map
             ELSE IF HasLength(preferredPhases) /\ Length(preferredPhases) = 0
             THEN AddEach(map, AnyPhase(ObjectKeys(phaseWorkerSlots)), ts[i].Duration.n)
             ELSE IF IsArray(preferredPhases)
             THEN AddEach(map, ElementKeys(preferredPhases), ts[i].Duration.n)
             ELSE map
       IN PhaseSlotUsage(ts, i + 1, phaseWorkerSlots,
                         Try(ParseOrEmpty(ts[i].PreferredPhases)))

\* Object.entries(phaseSlotUsage).forEach: one warning per entry whose
\* duration exceeds the slots of parseInt(phase)
Saturation(phaseSlotUsage, phaseWorkerSlots) ==
  LET Entry(phaseNum, duration, availableSlots) ==
        IF duration > availableSlots
        THEN <<CrossDiag("phase_saturation", "system", NoField, "warning",
                         <<"Phase ">> \o phaseNum \o <<" is oversubscribed (">>
                         \o NumChars(duration) \o <<" duration units needed but only ">>
                         \o NumChars(availableSlots) \o <<" slots available)">>)>>
        ELSE <<>>
      ForEach(keys) ==
        Flatten([k \in 1..Len(keys) |->
                   Entry(ParseIntKey(keys[k]), GetOrZero(phaseSlotUsage, keys[k]),
                         GetOrZero(phaseWorkerSlots, ParseIntKey(keys[k])))])
  IN ForEach(ObjectKeys(phaseSlotUsage))

checkPhaseSlotSaturation(ts, ws) ==
  LET Usage(phaseWorkerSlots) ==
        Saturation(PhaseSlotUsage(ts, 1, phaseWorkerSlots, <<>>), phaseWorkerSlots)
  IN Usage(PhaseWorkerSlots(ws, 1, <<>>))

\* tasks.forEach in checkMaxConcurrency: one warning per task with fewer
\* qualified workers than its MaxConcurrent
checkMaxConcurrency(ts, ws) ==
  LET Task(task, qualified) ==
        IF LessThan(Len(qualified), task.MaxConcurrent)
        THEN <<CrossDiag("max_concurrency", "task", "MaxConcurrent", "warning",
                         <<"Task ">> \o ToStr(task.TaskID) \o <<" has MaxConcurrent=">>
                         \o ToStr(task.MaxConcurrent) \o <<" but only ">>
                         \o NatChars(Len(qualified)) \o <<" qualified workers available">>)>>
        ELSE <<>>
  IN Flatten([i \in 1..Len(ts) |-> Task(ts[i], qualifiedWorkers(ws, ts[i]))])

\* the workers and tasks handed to the feasibility checks
FeasibleWorkerRows ==
  {[BaseWorker EXCEPT !.Skills = Str(<<"a", ",", "b">>),
                      !.AvailableSlots = Str(<<"[", "1", "]">>)],
   [BaseWorker EXCEPT !.WorkerID = IdB, !.Skills = Str(<<"a">>),
                      !.AvailableSlots = Str(<<"1", "-", "2">>)],
   [BaseWorker EXCEPT !.Skills = Undef, !.MaxLoadPerPhase = Num(N(1))],
   [BaseWorker EXCEPT !.WorkerID = IdB, !.Skills = Str(<<"b">>),
                      !.AvailableSlots = RangeDown, !.MaxLoadPerPhase = Num(N(3))],
   [BaseWorker EXCEPT !.AvailableSlots = BareNumber]}

FeasibleTaskRows ==
  {[BaseTask EXCEPT !.TaskID = Str(<<"T">>), !.Duration = Num(N(5)),
                    !.RequiredSkills = Str(<<"a", ",", " ", "b">>),
                    !.PreferredPhases = Str(<<"[", "1", "]">>)],
   [BaseTask EXCEPT !.TaskID = Str(<<"X">>), !.Duration = Num(N(2)),
                    !.RequiredSkills = Undef, !.MaxConcurrent = Num(N(2))],
   [BaseTask EXCEPT !.TaskID = Str(<<"T">>), !.Duration = Num(15),
                    !.RequiredSkills = Str(<<"a">>),
                    !.PreferredPhases = Str(<<"[", "1", ",", "1", "]">>),
                    !.MaxConcurrent = Num(N(3))],
   [BaseTask EXCEPT !.TaskID = Str(<<"X">>), !.RequiredSkills = Str(<<"c">>),
                    !.PreferredPhases = RangeDown, !.MaxConcurrent = Str(<<"x">>)],
   [BaseTask EXCEPT !.TaskID = Str(<<"T">>), !.Duration = Num(N(3)),
                    !.RequiredSkills = Str(<<"b">>),
                    !.PreferredPhases = Str(<<"[", "2", ",", " ", "3", "]">>),
                    !.MaxConcurrent = Num(N(2))]}

FeasibleWorkers ==
  {validateWorkers(rows).records : rows \in SeqsUpTo(FeasibleWorkerRows, MaxWorkers)}
FeasibleTasks ==
  {validateTasks(rows).records : rows \in SeqsUpTo(FeasibleTaskRows, MaxTasks)}

InitFeasible ==
  /\ kind = "none"
  /\ data = <<>> /\ records = <<>> /\ errors = <<>>
  /\ phaseStr = <<>> /\ phases = <<>>
  /\ pc = "call"
  /\ clients = <<>>
  /\ workers \in FeasibleWorkers
  /\ tasks \in FeasibleTasks
  /\ rules = <<>>
  /\ returned = <<>>
  /\ NoApp

CallCheckWorkerOverload ==
  /\ pc = "call"
  /\ returned' = checkWorkerOverload(workers)
  /\ pc' = "checkWorkerOverload"
  /\ UNCHANGED <<clients, workers, tasks, rules>>
  /\ UNCHANGED rowVars
  /\ UNCHANGED appVars

CallCheckPhaseSlotSaturation ==
  /\ pc = "call"
  /\ returned' = checkPhaseSlotSaturation(tasks, workers)
  /\ pc' = "checkPhaseSlotSaturation"
  /\ UNCHANGED <<clients, workers, tasks, rules>>
  /\ UNCHANGED rowVars
  /\ UNCHANGED appVars

CallCheckMaxConcurrency ==
  /\ pc = "call"
  /\ returned' = checkMaxConcurrency(tasks, workers)
  /\ pc' = "checkMaxConcurrency"
  /\ UNCHANGED <<clients, workers, tasks, rules>>
  /\ UNCHANGED rowVars
  /\ UNCHANGED appVars

NextFeasible ==
  \/ CallCheckWorkerOverload
  \/ CallCheckPhaseSlotSaturation
  \/ CallCheckMaxConcurrency

SpecFeasible == InitFeasible /\ [][NextFeasible]_vars

(***************************************************************************)
(* Claims on the feasibility checks                                        *)
(***************************************************************************)

RECURSIVE Total(_)
Total(ns) == IF Len(ns) = 0 THEN 0 ELSE Head(ns) + Total(Tail(ns))

StartsWith(message, prefix) ==
  Len(message) >= Len(prefix) /\ SubSeq(message, 1, Len(prefix)) = prefix

CountPrefix(prefix) ==
  Cardinality({i \in 1..Len(returned) : StartsWith(returned[i].message, prefix)})

\* every phase some worker or task lists
AllPhases ==
  UNION ({PhaseSet(workers[w].AvailableSlots) : w \in 1..Len(workers)}
         \cup {PhaseSet(tasks[i].PreferredPhases) : i \in 1..Len(tasks)})

\* capacity(p): MaxLoadPerPhase summed over the workers available in p
Capacity(p) ==
  Total([w \in 1..Len(workers) |->
           IF p \in PhaseSet(workers[w].AvailableSlots)
           THEN workers[w].MaxLoadPerPhase.n ELSE 0])

\* the task has no preferred phases: the field is empty or an empty list
NoPreferred(task) ==
  IsArray(ParseOrEmpty(task.PreferredPhases))
  /\ Len(ParseOrEmpty(task.PreferredPhases).elems) = 0

\* demand(p): Duration summed over the tasks preferring p, plus that of
\* the tasks without preferred phases when p has worker capacity
Demand(p) ==
  Total([i \in 1..Len(tasks) |->
           IF p \in PhaseSet(tasks[i].PreferredPhases) THEN tasks[i].Duration.n
           ELSE IF NoPreferred(tasks[i]) /\ Capacity(p) > 0 THEN tasks[i].Duration.n
           ELSE 0])

SaturationPrefix(p) == <<"Phase ">> \o NumChars(p) \o <<" is oversubscribed (">>

SaturationMessage(p) ==
  SaturationPrefix(p) \o NumChars(Demand(p)) \o <<" duration units needed but only ">>
  \o NumChars(Capacity(p)) \o <<" slots available)">>

\* C15: checkPhaseSlotSaturation warns about phase p if and only if
\* demand(p) > capacity(p), capacity being the MaxLoadPerPhase of the
\* workers available in p and demand the Duration of the tasks preferring p
\* plus, when p has capacity, that of the tasks without preferred phases;
\* the warning reports both figures and there is at most one per phase.
C15_PhaseSaturation ==
  pc = "checkPhaseSlotSaturation" =>
    \A p \in AllPhases :
      IF Demand(p) > Capacity(p)
      THEN /\ CountPrefix(SaturationPrefix(p)) = 1
           /\ CountMessage("phase_saturation", SaturationMessage(p)) = 1
      ELSE CountPrefix(SaturationPrefix(p)) = 0

\* the tasks with a MaxConcurrent, and the workers holding all their skills
BoundedTasks == {i \in 1..Len(tasks) : tasks[i].MaxConcurrent.t = "number"}
Holders(i) == {w \in 1..Len(workers) : Holds(workers[w], tasks[i])}
TooFewHolders(i) == N(Cardinality(Holders(i))) < tasks[i].MaxConcurrent.n

ConcurrencyPrefix(i) ==
  <<"Task ">> \o tasks[i].TaskID.s \o <<" has MaxConcurrent=">>
  \o NumChars(tasks[i].MaxConcurrent.n) \o <<" but only ">>

\* C16: checkMaxConcurrency warns about a task if and only if fewer workers
\* hold every required skill of the task than its MaxConcurrent; a task
\* that requires no skill is held by every worker, so it is warned about
\* only when there are fewer workers than its MaxConcurrent.
C16_MaxConcurrency ==
  pc = "checkMaxConcurrency" =>
    \A i \in BoundedTasks :
      CountPrefix(ConcurrencyPrefix(i))
        = Cardinality({j \in BoundedTasks :
                         /\ ConcurrencyPrefix(j) = ConcurrencyPrefix(i)
                         /\ TooFewHolders(j)})

\* the workers whose AvailableSlots is empty or a list, and those of them
\* with fewer slots than their MaxLoadPerPhase
ListedWorkers == {w \in 1..Len(workers) : IsArray(ParseOrEmpty(workers[w].AvailableSlots))}
SlotCount(w) == Len(ParseOrEmpty(workers[w].AvailableSlots).elems)
Overloaded == {w \in ListedWorkers : N(SlotCount(w)) < workers[w].MaxLoadPerPhase.n}

OverloadMessage(w) ==
  <<"Worker ">> \o workers[w].WorkerID.s \o <<" has more MaxLoadPerPhase (">>
  \o NumChars(workers[w].MaxLoadPerPhase.n) \o <<") than AvailableSlots (">>
  \o NatChars(SlotCount(w)) \o <<")">>

ArrayOf(items) == [t |-> "array", s |-> <<>>, n |-> 0, items |-> items]

\* the condition of `if (x)` for a parameter value: an array is truthy
IsSet(x) == x.t = "array" \/ Truthy(x)

\* set.has(x) for a set of strings
SetHas(set, x) == x.t = "string" /\ x.s \in set

RuleDiag(field, message) == CrossDiag("invalid_rule", "rule", field, "error", message)

\* a result of validateBusinessRules: the diagnostics, or a TypeError
\* thrown out of the function
Returns(errs) == [threw |-> FALSE, errors |-> errs]
TypeError == [threw |-> TRUE, errors |-> <<>>]

\* list.forEach((id) => { if (!set.has(id)) errors.push(...) }) for
\* `parameters.key || []`; forEach is no function of a string or a number
ListErrors(list, set, field, text) ==
  IF ~IsSet(list) THEN Returns(<<>>)
  ELSE IF list.t # "array" THEN TypeError
  ELSE Returns(Flatten([k \in 1..Len(list.items) |->
                          IF list.items[k] \notin set
                          THEN <<RuleDiag(field, <<text>> \o list.items[k])>>
                          ELSE <<>>]))

\* the push made for every parameter that is set, without the lookup
ScalarErrors_NoLookup(x, set, field, text) ==
  IF IsSet(x)
  THEN Returns(<<RuleDiag(field, <<text>> \o ToStr(x))>>)
  ELSE Returns(<<>>)

\* `if (x && !set.has(x)) errors.push(...)`
ScalarErrors(x, set, field, text) ==
  IF IsSet(x) /\ ~SetHas(set, x)
  THEN Returns(<<RuleDiag(field, <<text>> \o ToStr(x))>>)
  ELSE Returns(<<>>)

\* the rule ids taken from the rules before this one only
RuleErrors_EarlierOnly(rs, i, taskIds, workerGroups) ==
  CASE rs[i].type = "coRun" ->
         ListErrors(rs[i].parameters.taskIds, taskIds, "parameters.taskIds",
                    "Co-run rule references unknown task ID: ")
    [] rs[i].type = "slotRestriction" ->
         ScalarErrors(rs[i].parameters.group, workerGroups, "parameters.group",
                      "Slot restriction rule references unknown worker group: ")
    [] rs[i].type = "loadLimit" ->
         ScalarErrors(rs[i].parameters.workerGroup, workerGroups, "parameters.workerGroup",
                      "Load limit rule references unknown worker group: ")
    [] rs[i].type = "phaseWindow" ->
         ScalarErrors(rs[i].parameters.taskId, taskIds, "parameters.taskId",
                      "Phase window rule references unknown task ID: ")
    [] rs[i].type = "precedenceOverride" ->
         ListErrors(rs[i].parameters.ruleIds, {rs[j].id.s : j \in 1..(i - 1)},
                    "parameters.ruleIds",
                    "Precedence override rule references unknown rule ID: ")
    [] OTHER -> Returns(<<>>)

\* the switch on rule.type for the rule at position i
RuleErrors(rs, i, taskIds, workerGroups) ==
  CASE rs[i].type = "coRun" ->
         ListErrors(rs[i].parameters.taskIds, taskIds, "parameters.taskIds",
                    "Co-run rule references unknown task ID: ")
    [] rs[i].type = "slotRestriction" ->
         ScalarErrors(rs[i].parameters.group, workerGroups, "parameters.group",
                      "Slot restriction rule references unknown worker group: ")
    [] rs[i].type = "loadLimit" ->
         ScalarErrors(rs[i].parameters.workerGroup, workerGroups, "parameters.workerGroup",
                      "Load limit rule references unknown worker group: ")
    [] rs[i].type = "phaseWindow" ->
         ScalarErrors(rs[i].parameters.taskId, taskIds, "parameters.taskId",
                      "Phase window rule references unknown task ID: ")
    [] rs[i].type = "precedenceOverride" ->
         ListErrors(rs[i].parameters.ruleIds, {rs[j].id.s : j \in 1..Len(rs)},
                    "parameters.ruleIds",
                    "Precedence override rule references unknown rule ID: ")
    [] OTHER -> Returns(<<>>)

\* rules.forEach from position i on; an exception ends the call
RECURSIVE RulesFrom(_, _, _, _, _)
RulesFrom(rs, i, taskIds, workerGroups, errs) ==
  IF i > Len(rs) THEN Returns(errs)
  ELSE LET Visit(r) ==
             IF r.threw THEN TypeError
             ELSE RulesFrom(rs, i + 1, taskIds, workerGroups, errs \o r.errors)
       IN Visit(RuleErrors(rs, i, taskIds, workerGroups))

validateBusinessRules(rs, cs, ws, ts) ==
  RulesFrom(rs, 1, TaskIdSet(ts), WorkerGroupSet(ws), <<>>)

MaxRules == 2

NoParameters ==
  [taskIds |-> Undef, group |-> Undef, workerGroup |-> Undef, taskId |-> Undef,
   ruleIds |-> Undef]

Rule(id, type, parameters) == [id |-> Str(id), type |-> type, parameters |-> parameters]

RuleRows ==
  {Rule(<<"r", "1">>, "coRun",
        [NoParameters EXCEPT !.taskIds = ArrayOf(<< <<"T">>, <<"X">> >>)]),
   Rule(<<"r", "2">>, "coRun", NoParameters),
   Rule(<<"r", "3">>, "slotRestriction", [NoParameters EXCEPT !.group = Str(<<"G">>)]),
   Rule(<<"r", "4">>, "slotRestriction", [NoParameters EXCEPT !.group = Str(<<>>)]),
   Rule(<<"r", "5">>, "loadLimit", [NoParameters EXCEPT !.workerGroup = Str(<<"g">>)]),
   Rule(<<"r", "6">>, "phaseWindow", [NoParameters EXCEPT !.taskId = Str(<<"X">>)]),
   Rule(<<"r", "7">>, "precedenceOverride",
        [NoParameters EXCEPT !.ruleIds = ArrayOf(<< <<"r", "7">>, <<"r", "8">>, <<"z">> >>)]),
   Rule(<<"r", "8">>, "patternMatch",
        [NoParameters EXCEPT !.taskIds = ArrayOf(<< <<"Z">> >>), !.group = Str(<<"Q">>),
                             !.ruleIds = ArrayOf(<< <<"q">> >>)]),
   Rule(<<"r", "9">>, "coRun", [NoParameters EXCEPT !.taskIds = Str(<<"T">>)])}

RuleTaskRows ==
  {[BaseTask EXCEPT !.TaskID = Str(<<"T">>)], [BaseTask EXCEPT !.TaskID = Str(<<"X">>)]}

RuleWorkerRows ==
  {[BaseWorker EXCEPT !.WorkerGroup = Str(<<"G">>)], BaseWorker}

RuleTasks == {validateTasks(rows).records : rows \in SeqsUpTo(RuleTaskRows, MaxTasks)}
RuleWorkers == {validateWorkers(rows).records : rows \in SeqsUpTo(RuleWorkerRows, MaxWorkers)}

InitRules ==
  /\ kind = "none"
  /\ data = <<>> /\ records = <<>> /\ errors = <<>>
  /\ phaseStr = <<>> /\ phases = <<>>
  /\ pc = "call"
  /\ clients = <<>>
  /\ workers \in RuleWorkers
  /\ tasks \in RuleTasks
  /\ rules \in SeqsUpTo(RuleRows, MaxRules)
  /\ returned = <<>>
  /\ NoApp

CallValidateBusinessRules ==
  /\ pc = "call"
  /\ LET Return(r) ==
           /\ returned' = r.errors
           /\ pc' = IF r.threw THEN "TypeError" ELSE "validateBusinessRules"
     IN Return(validateBusinessRules(rules, clients, workers, tasks))
  /\ UNCHANGED <<clients, workers, tasks, rules>>
  /\ UNCHANGED rowVars
  /\ UNCHANGED appVars

NextRules == CallValidateBusinessRules

SpecRules == InitRules /\ [][NextRules]_vars

(***************************************************************************)
(* Claims on validateBusinessRules                                         *)
(***************************************************************************)

\* the references a rule makes: <<rule, position, field, text, referenced id>>;
\* a parameter that is not set references nothing
ListRefs(i, key, field, text) ==
  IF rules[i].parameters[key].t = "array"
  THEN {<<i, k, field, text, rules[i].parameters[key].items[k]>> :
          k \in 1..Len(rules[i].parameters[key].items)}
  ELSE {}

ScalarRefs(i, key, field, text) ==
  IF Truthy(rules[i].parameters[key])
  THEN {<<i, 1, field, text, rules[i].parameters[key].s>>}
  ELSE {}

TaskIds == {tasks[j].TaskID.s : j \in 1..Len(tasks)}
WorkerGroups == {workers[w].WorkerGroup.s : w \in 1..Len(workers)}
RuleIds == {rules[j].id.s : j \in 1..Len(rules)}

\* the dangling references of the co-run, phase-window, slot-restriction
\* and load-limit rules
DanglingDataRefs ==
  UNION {CASE rules[i].type = "coRun" ->
                {r \in ListRefs(i, "taskIds", "parameters.taskIds",
                                "Co-run rule references unknown task ID: ") :
                   r[5] \notin TaskIds}
           [] rules[i].type = "phaseWindow" ->
                {r \in ScalarRefs(i, "taskId", "parameters.taskId",
                                  "Phase window rule references unknown task ID: ") :
                   r[5] \notin TaskIds}
           [] rules[i].type = "slotRestriction" ->
                {r \in ScalarRefs(i, "group", "parameters.group",
                                  "Slot restriction rule references unknown worker group: ") :
                   r[5] \notin WorkerGroups}
           [] rules[i].type = "loadLimit" ->
                {r \in ScalarRefs(i, "workerGroup", "parameters.workerGroup",
                                  "Load limit rule references unknown worker group: ") :
                   r[5] \notin WorkerGroups}
           [] OTHER -> {} :
         i \in 1..Len(rules)}

\* the dangling references of the precedence-override rules
DanglingRuleRefs ==
  UNION {IF rules[i].type = "precedenceOverride"
         THEN {r \in ListRefs(i, "ruleIds", "parameters.ruleIds",
                              "Precedence override rule references unknown rule ID: ") :
                 r[5] \notin RuleIds}
         ELSE {} :
         i \in 1..Len(rules)}

RefMessage(r) == <<r[4]>> \o r[5]

CountRef(r) ==
  Cardinality({i \in 1..Len(returned) :
                 /\ returned[i].type = "invalid_rule" /\ returned[i].severity = "error"
                 /\ returned[i].field = r[3] /\ returned[i].message = RefMessage(r)})

DataFields ==
  {"parameters.taskIds", "parameters.taskId", "parameters.group", "parameters.workerGroup"}

Ascii ==
  <<" ", "!", "\"", "#", "$", "%", "&", "'", "(", ")", "*", "+", ",", "-",
    ".", "/", "0", "1", "2", "3", "4", "5", "6", "7", "8", "9", ":", ";",
    "<", "=", ">", "?", "@", "A", "B", "C", "D", "E", "F", "G", "H", "I",
    "J", "K", "L", "M", "N", "O", "P", "Q", "R", "S", "T", "U", "V", "W",
    "X", "Y", "Z", "[", "]", "^", "_", "a", "b", "c", "d", "e",
    "f", "g", "h", "i", "j", "k", "l", "m", "n", "o", "p", "q", "r", "s",
    "t", "u", "v", "w", "x", "y", "z", "{", "|", "}", "~">>

CharCode(c) == CHOOSE i \in 1..Len(Ascii) : Ascii[i] = c

\* a < b for strings, as the default comparison of Array.prototype.sort
RECURSIVE LexLess(_, _)
LexLess(a, b) ==
  IF Len(b) = 0 THEN FALSE
  ELSE IF Len(a) = 0 THEN TRUE
  ELSE IF Head(a) = Head(b) THEN LexLess(Tail(a), Tail(b))
  ELSE CharCode(Head(a)) < CharCode(Head(b))

\* [a, b].sort().join(",")
PairKey(a, b) == IF LexLess(b, a) THEN b \o <<",">> \o a ELSE a \o <<",">> \o b

\* the keys of the pairs (i, j), i < j, in the order of the two loops
RECURSIVE PairKeysFrom(_, _, _)
PairKeysFrom(taskIds, i, j) ==
  IF i > Len(taskIds) THEN <<>>
  ELSE IF j > Len(taskIds) THEN PairKeysFrom(taskIds, i + 1, i + 2)
  ELSE <<PairKey(taskIds[i], taskIds[j])>> \o PairKeysFrom(taskIds, i, j + 1)

\* map[key] = map[key] || []; map[key].push(item)
PushAt(map, key, item) ==
  IF HasKey(map, key)
  THEN [i \in 1..Len(map) |->
          IF map[i].key = key THEN [key |-> key, val |-> Append(map[i].val, item)]
          ELSE map[i]]
  ELSE Append(map, [key |-> key, val |-> <<item>>])

RECURSIVE PushEach(_, _, _)
PushEach(map, keys, item) ==
  IF Len(keys) = 0 THEN map ELSE PushEach(PushAt(map, Head(keys), item), Tail(keys), item)

\* clients.forEach: the ClientID pushed once per pair of positions of the
\* client's requested ids
RECURSIVE ClientTaskPairs(_, _, _)
ClientTaskPairs(cs, i, map) ==
  IF i > Len(cs) THEN map
  ELSE IF Truthy(cs[i].RequestedTaskIDs)
  THEN ClientTaskPairs(cs, i + 1,
         PushEach(map, PairKeysFrom(SplitTrim(cs[i].RequestedTaskIDs.s), 1, 2),
                  cs[i].ClientID.s))
  ELSE ClientTaskPairs(cs, i + 1, map)

\* workers.forEach: workerGroupCounts[group] = (workerGroupCounts[group] || 0) + 1
RECURSIVE WorkerGroupCounts(_, _, _)
WorkerGroupCounts(ws, i, map) ==
  IF i > Len(ws) THEN map
  ELSE WorkerGroupCounts(ws, i + 1, AddAt(map, ws[i].WorkerGroup.s, 1))

\* taskIds.join(" and ")
RECURSIVE JoinAnd(_)
JoinAnd(ids) ==
  IF Len(ids) = 0 THEN <<>>
  ELSE IF Len(ids) = 1 THEN ids[1]
  ELSE ids[1] \o <<" and ">> \o JoinAnd(Tail(ids))

\* rules.push({id: `co-run-${now}-${rules.length}`, type: "coRun", ...})
CoRunRule(now, length, taskPair, clientIds) ==
  [id |-> <<"co-run-">> \o NatChars(now) \o <<"-">> \o NatChars(length),
   type |-> "coRun",
   name |-> <<"Co-run ">> \o JoinAnd(SplitFrom(taskPair, 1, <<>>)),
   description |-> <<"Automatically generated because ">> \o NatChars(Len(clientIds))
                   \o <<" clients request these tasks together">>,
   parameters |-> [taskIds |-> ArrayOf(SplitFrom(taskPair, 1, <<>>))]]

\* rules.push({id: `load-limit-${now}-${rules.length}`, type: "loadLimit", ...})
LoadLimitRule(now, length, group, count) ==
  [id |-> <<"load-limit-">> \o NatChars(now) \o <<"-">> \o NatChars(length),
   type |-> "loadLimit",
   name |-> <<"Load limit for ">> \o group,
   description |-> <<"Automatically generated because ">> \o group \o <<" has ">>
                   \o NatChars(count) \o <<" workers">>,
   parameters |-> [workerGroup |-> Str(group),
                   maxSlotsPerPhase |-> Num(N(count \div 2))]]

\* Object.entries(clientTaskPairs).forEach: a rule per pair with at least
\* 3 pushed ClientIDs (the keys hold a comma, so they keep insertion order)
RECURSIVE CoRunRules(_, _, _, _)
CoRunRules(map, i, now, out) ==
  IF i > Len(map) THEN out
  ELSE CoRunRules(map, i + 1, now,
         IF Len(map[i].val) >= 3
         THEN Append(out, CoRunRule(now, Len(out), map[i].key, map[i].val))
         ELSE out)

\* a group from 5 workers on
IsLargeGroup_FromFive(count) == count >= 5

\* if (count > 5)
IsLargeGroup(count) == count > 5

\* Object.entries(workerGroupCounts).forEach: a rule per group of more
\* than 5 workers
RECURSIVE LoadLimitRules(_, _, _, _, _)
LoadLimitRules(map, keys, i, now, out) ==
  IF i > Len(keys) THEN out
  ELSE LoadLimitRules(map, keys, i + 1, now,
         IF IsLargeGroup(GetOrZero(map, keys[i]))
         THEN Append(out, LoadLimitRule(now, Len(out), keys[i], GetOrZero(map, keys[i])))
         ELSE out)

generateDefaultRules(cs, ws, ts, now) ==
  LET Groups(map, out) == LoadLimitRules(map, ObjectKeys(map), 1, now, out)
  IN Groups(WorkerGroupCounts(ws, 1, <<>>),
            CoRunRules(ClientTaskPairs(cs, 1, <<>>), 1, now, <<>>))

MaxRequesters == 3
MaxGroupSize == 6
MaxNow == 2

GenerateClientRows ==
  {[BaseClient EXCEPT !.RequestedTaskIDs = Str(<<"T", ",", "X">>)],
   [BaseClient EXCEPT !.ClientID = IdB, !.RequestedTaskIDs = Str(<<"X", ",", " ", "T">>)],
   [BaseClient EXCEPT !.ClientID = Str(<<"C">>),
                      !.RequestedTaskIDs = Str(<<"T", ",", "X", ",", "T", ",", "X">>)],
   [BaseClient EXCEPT !.ClientID = Str(<<"D">>),
                      !.RequestedTaskIDs = Str(<<"T", ",", "X", ",", "Y">>)]}

GenerateWorkerRows ==
  {[BaseWorker EXCEPT !.WorkerGroup = Str(<<"G">>)],
   [BaseWorker EXCEPT !.WorkerID = IdB, !.WorkerGroup = Str(<<"H">>)]}

GenerateClients ==
  {validateClients(rows).records : rows \in SeqsUpTo(GenerateClientRows, MaxRequesters)}
GenerateWorkers ==
  {validateWorkers(rows).records : rows \in SeqsUpTo(GenerateWorkerRows, MaxGroupSize)}

InitGenerate ==
  /\ kind = "none"
  /\ data = <<>> /\ records = <<>> /\ errors = <<>>
  /\ phaseStr = <<>> /\ phases = <<>>
  /\ pc = "call"
  /\ clients \in GenerateClients
  /\ workers \in GenerateWorkers
  /\ tasks = <<>>
  /\ rules = <<>>
  /\ returned = <<>>
  /\ NoApp

\* one call; Date.now() gives any timestamp
CallGenerateDefaultRules ==
  /\ pc = "call"
  /\ \E now \in 1..MaxNow : returned' = generateDefaultRules(clients, workers, tasks, now)
  /\ pc' = "generateDefaultRules"
  /\ UNCHANGED <<clients, workers, tasks, rules>>
  /\ UNCHANGED rowVars
  /\ UNCHANGED appVars

NextGenerate == CallGenerateDefaultRules

SpecGenerate == InitGenerate /\ [][NextGenerate]_vars

(***************************************************************************)
(* Claims on generateDefaultRules                                          *)
(***************************************************************************)

\* the ids a client record requests
RequestedBy(i) == Elements(EntriesOf(clients[i].RequestedTaskIDs))

RequestedIds == UNION {RequestedBy(i) : i \in 1..Len(clients)}

\* the distinct clients requesting both ids
RequestersOf(a, b) ==
  {clients[i].ClientID.s : i \in {i \in 1..Len(clients) : {a, b} \subseteq RequestedBy(i)}}

\* the proposed co-run rules for the pair, in either order of its ids
CoRunRulesFor(a, b) ==
  {i \in 1..Len(returned) :
     /\ returned[i].type = "coRun"
     /\ returned[i].parameters.taskIds.items \in {<<a, b>>, <<b, a>>}}

\* C20: generateDefaultRules proposes a co-run rule for an unordered pair
\* of task ids if and only if at least 3 distinct clients each request both
\* ids; repeated ids within one client's list and records sharing a
\* ClientID do not count twice, and a qualifying pair gets exactly one rule
\* whatever the order of its ids in the lists.
C20_CoRunByThreeClients ==
  pc = "generateDefaultRules" =>
    \A a \in RequestedIds : \A b \in RequestedIds \ {a} :
      Cardinality(CoRunRulesFor(a, b))
        = IF Cardinality(RequestersOf(a, b)) >= 3 THEN 1 ELSE 0

\* the worker records of a group
Members(group) == {i \in 1..Len(workers) : workers[i].WorkerGroup = group}

GroupsHeld == {workers[i].WorkerGroup : i \in 1..Len(workers)}

\* the proposed load-limit rules for the group
LoadLimitRulesFor(group) ==
  {i \in 1..Len(returned) :
     /\ returned[i].type = "loadLimit"
     /\ returned[i].parameters.workerGroup = group}

\* floor(count / 2) as the largest integer whose double is at most count
HalfOf(count) == CHOOSE k \in 0..count : 2 * k <= count /\ count < 2 * k + 2

\* C21: generateDefaultRules proposes a load-limit rule for a worker group
\* if and only if the group has more than 5 members (exactly 5 yields
\* none), the rule's suggested cap is floor(count / 2), and all rule
\* identifiers returned by one call are pairwise distinct.
C21_LoadLimitAndDistinctIds ==
  pc = "generateDefaultRules" =>
    /\ \A group \in GroupsHeld :
         /\ Cardinality(LoadLimitRulesFor(group))
              = IF Cardinality(Members(group)) > 5 THEN 1 ELSE 0
         /\ \A i \in LoadLimitRulesFor(group) :
              returned[i].parameters.maxSlotsPerPhase
                = Num(N(HalfOf(Cardinality(Members(group)))))
    /\ \A i \in 1..Len(returned) :
         /\ returned[i].type = "loadLimit"
              => returned[i].parameters.workerGroup \in GroupsHeld
         /\ \A j \in 1..Len(returned) : returned[i].id = returned[j].id => i = j

\* a call returning a co-run rule and the load-limit rule of a group of
\* more than 5 workers
C21_Witness ==
  /\ pc = "generateDefaultRules"
  /\ \E group \in GroupsHeld :
       Cardinality(Members(group)) > 5 /\ LoadLimitRulesFor(group) # {}
  /\ \E i \in 1..Len(returned) : returned[i].type = "coRun"

(***************************************************************************)
(* normalizeWeights.  A weight is a JavaScript number, an IEEE-754 binary64 *)
(* value: a sign, a significand of 53 bits held in two limbs                *)
(* (hi * 2^27 + lo) and an exponent, value = sign * significand * 2^e.      *)
(* Zero has significand 0.  + and / round to nearest, ties to even.         *)
(***************************************************************************)

Limb == 2 ^ 27
TopBit == 2 ^ 25   \* a 53-bit significand has hi in [2^25, 2^26)

Wide(hi, lo) == [hi |-> hi, lo |-> lo]
WideOf(n) == Wide(n \div Limb, n % Limb)
IsNone(x) == x.hi = 0 /\ x.lo = 0
IsOdd(x) == x.lo % 2 = 1
Twice(x) == Wide(2 * x.hi + (2 * x.lo) \div Limb, (2 * x.lo) % Limb)
Halve(x) == Wide(x.hi \div 2, x.lo \div 2 + (x.hi % 2) * (Limb \div 2))
AtLeast(x, y) == x.hi > y.hi \/ (x.hi = y.hi /\ x.lo >= y.lo)
Plus(x, y) == Wide(x.hi + y.hi + (x.lo + y.lo) \div Limb, (x.lo + y.lo) % Limb)
Minus(x, y) ==
  IF x.lo >= y.lo THEN Wide(x.hi - y.hi, x.lo - y.lo)
  ELSE Wide(x.hi - y.hi - 1, x.lo + Limb - y.lo)

Float(sign, m, e) == [sign |-> sign, m |-> m, e |-> e]
Zero == Float(1, Wide(0, 0), 0)
\* NaN, Infinity and -Infinity: what a division by zero gives
NotFinite == Float(0, Wide(0, 0), 0)

\* a short significand moved up to 53 bits (exact)
RECURSIVE ShiftUp(_)
ShiftUp(x) ==
  IF x.m.hi >= TopBit THEN x ELSE ShiftUp(Float(x.sign, Twice(x.m), x.e - 1))

\* one more bit shifted out of a long significand: rnd is the last bit
\* shifted out and sticky tells whether anything below it was non-zero
Shifted(x) ==
  [sign |-> x.sign, m |-> Halve(x.m), e |-> x.e + 1,
   rnd |-> IsOdd(x.m), sticky |-> x.sticky \/ x.rnd]

\* a long significand moved down to 53 bits and rounded to nearest, ties
\* to even
RECURSIVE ShiftDown(_)
ShiftDown(x) ==
  IF x.m.hi >= 2 * TopBit THEN ShiftDown(Shifted(x))
  ELSE IF x.rnd /\ (x.sticky \/ IsOdd(x.m))
  THEN IF Plus(x.m, Wide(0, 1)).hi >= 2 * TopBit
       THEN Float(x.sign, Halve(Plus(x.m, Wide(0, 1))), x.e + 1)
       ELSE Float(x.sign, Plus(x.m, Wide(0, 1)), x.e)
  ELSE Float(x.sign, x.m, x.e)

\* the binary64 nearest to sign * (m + fraction) * 2^e, the fraction being
\* non-zero when sticky
Round(sign, m, sticky, e) ==
  IF IsNone(m) THEN Zero
  ELSE IF m.hi < TopBit THEN ShiftUp(Float(sign, m, e))
  ELSE ShiftDown([sign |-> sign, m |-> m, e |-> e, rnd |-> FALSE, sticky |-> sticky])

\* an integer as a number
FromInt(n) == IF n < 0 THEN Round(-1, WideOf(-n), FALSE, 0) ELSE Round(1, WideOf(n), FALSE, 0)

\* one step of the long division of r by d: the next quotient bit, n more
\* to come
QuotientBit(x, d) ==
  IF AtLeast(x.r, d)
  THEN [r |-> Twice(Minus(x.r, d)), q |-> Plus(Twice(x.q), Wide(0, 1)), n |-> x.n - 1]
  ELSE [r |-> Twice(x.r), q |-> Twice(x.q), n |-> x.n - 1]

\* the first n bits of r / d, the first one its integer part, and what is
\* left of r
RECURSIVE QuotientBits(_, _)
QuotientBits(x, d) ==
  IF x.n = 0 THEN x ELSE QuotientBits(QuotientBit(x, d), d)

\* a / b
Divide(a, b) ==
  LET Rounded(x) == Round(a.sign * b.sign, x.q, ~IsNone(x.r), a.e - b.e - 55)
  IN IF a.sign = 0 \/ b.sign = 0 \/ IsNone(b.m) THEN NotFinite
     ELSE IF IsNone(a.m) THEN Zero
     ELSE Rounded(QuotientBits([r |-> a.m, q |-> Wide(0, 0), n |-> 56], b.m))

\* m shifted right d places; sticky tells whether a non-zero bit was lost
RECURSIVE ShiftOut(_, _)
ShiftOut(x, d) ==
  IF d = 0 \/ IsNone(x.m) THEN x
  ELSE ShiftOut([m |-> Halve(x.m), sticky |-> x.sticky \/ IsOdd(x.m)], d - 1)

Times8(m) == Twice(Twice(Twice(m)))

\* x + y for |x| >= |y|, both non-zero, with three guard bits
AddOrdered(x, y) ==
  LET Same(ym) == Round(x.sign, Plus(Times8(x.m), ym.m), ym.sticky, x.e - 3)
      Differ(ym) ==
        Round(x.sign,
              IF ym.sticky THEN Minus(Minus(Times8(x.m), ym.m), Wide(0, 1))
              ELSE Minus(Times8(x.m), ym.m),
              ym.sticky, x.e - 3)
      Aligned == ShiftOut([m |-> Times8(y.m), sticky |-> FALSE], x.e - y.e)
  IN IF x.sign = y.sign THEN Same(Aligned) ELSE Differ(Aligned)

\* a + b
Add(a, b) ==
  IF a.sign = 0 \/ b.sign = 0 THEN NotFinite
  ELSE IF IsNone(a.m) THEN b
  ELSE IF IsNone(b.m) THEN a
  ELSE IF a.e > b.e \/ (a.e = b.e /\ AtLeast(a.m, b.m)) THEN AddOrdered(a, b)
  ELSE AddOrdered(b, a)

\* the number written with one decimal: 0.4 is the binary64 nearest to 4/10
Tenths(v) == Divide(FromInt(v), FromInt(10))

Weight(key, val) == [key |-> key, val |-> val]

DEFAULT_WEIGHTS ==
  <<Weight("priorityLevel", Tenths(4)), Weight("taskFulfillment", Tenths(3)),
    Weight("fairness", Tenths(2)), Weight("efficiency", Tenths(1))>>

\* Object.values(weights).reduce((sum, weight) => sum + weight, 0)
RECURSIVE Reduce(_, _, _)
Reduce(ws, i, sum) ==
  IF i > Len(ws) THEN sum ELSE Reduce(ws, i + 1, Add(sum, ws[i].val))

\* the division without the test of the total
normalizeWeights_Unguarded(ws) ==
  LET Rescale(total) ==
        [i \in 1..Len(ws) |-> Weight(ws[i].key, Divide(ws[i].val, total))]
  IN Rescale(Reduce(ws, 1, Zero))

normalizeWeights(ws) ==
  LET Rescale(total) ==
        IF total = Zero THEN DEFAULT_WEIGHTS
        ELSE [i \in 1..Len(ws) |-> Weight(ws[i].key, Divide(ws[i].val, total))]
  IN Rescale(Reduce(ws, 1, Zero))

MaxWeight == 3     \* largest weight of the four criteria, in tenths
MaxDynamic == 2    \* largest magnitude of a dynamic weight

\* the four criteria with weights 0.0 .. MaxWeight / 10, and mappings of two
\* dynamic weights -MaxDynamic .. MaxDynamic
WeightInputs ==
  {<<Weight("priorityLevel", Tenths(p)), Weight("taskFulfillment", Tenths(t)),
     Weight("fairness", Tenths(f)), Weight("efficiency", Tenths(e))>> :
     <<p, t, f, e>> \in (0..MaxWeight) \X (0..MaxWeight) \X (0..MaxWeight) \X (0..MaxWeight)}
  \cup {<<Weight("a", FromInt(a)), Weight("b", FromInt(b))>> :
          <<a, b>> \in (-MaxDynamic..MaxDynamic) \X (-MaxDynamic..MaxDynamic)}

InitWeights ==
  /\ kind = "none"
  /\ data = <<>> /\ records = <<>> /\ errors = <<>>
  /\ phaseStr = <<>> /\ phases = <<>>
  /\ pc = "call"
  /\ clients = <<>> /\ workers = <<>> /\ tasks = <<>> /\ rules = <<>>
  /\ returned = <<>>
  /\ weights \in WeightInputs
  /\ validationErrors = <<>>
  /\ isUploading = FALSE
  /\ main = "none"
  /\ closure = <<>>
  /\ events = 0

CallNormalizeWeights ==
  /\ pc = "call"
  /\ returned' = normalizeWeights(weights)
  /\ pc' = "normalizeWeights"
  /\ UNCHANGED <<clients, workers, tasks, rules>>
  /\ UNCHANGED rowVars
  /\ UNCHANGED appVars

NextWeights == CallNormalizeWeights

SpecWeights == InitWeights /\ [][NextWeights]_vars

(***************************************************************************)
(* Claims on normalizeWeights                                              *)
(***************************************************************************)

KeysOf(ws) == {ws[i].key : i \in 1..Len(ws)}

InputSum == Reduce(weights, 1, Zero)

One == FromInt(1)

\* what the returned values add up to, minus 1
Excess == Add(Reduce(returned, 1, Zero), FromInt(-1))

\* |x| < 2^k
Below(x, k) == IsNone(x.m) \/ x.e + 53 <= k

Rescaled ==
  /\ Len(returned) = Len(weights)
  /\ KeysOf(returned) = KeysOf(weights)
  /\ \A i \in 1..Len(weights) : \A j \in 1..Len(returned) :
       returned[j].key = weights[i].key
         => returned[j].val = Divide(weights[i].val, InputSum)

Finite == \A i \in 1..Len(returned) : returned[i].val # NotFinite

MaxUploads == 3

\* what parseFile does with the chosen file: "resolve" with its rows,
\* "reject" (unsupported extension, XLSX.read or PapaParse failing), or
\* "pending" for a workbook the FileReader cannot read, as parseFile sets
\* no onerror and the promise is never settled
File(name, outcome, rows) == [name |-> name, outcome |-> outcome, rows |-> rows]

ClientFiles ==
  {File(<<"c1.csv">>, "resolve",
        <<[BaseClient EXCEPT !.RequestedTaskIDs = Str(<<"T", ",", " ", "X">>),
                             !.GroupTag = Str(<<"G">>)]>>),
   File(<<"c2.csv">>, "resolve",
        <<[BaseClient EXCEPT !.ClientID = Undef],
          BaseClient,
          [BaseClient EXCEPT !.ClientID = IdB, !.ClientName = Str(<<"m">>),
                             !.AttributesJSON = Str(<<"[", "1">>)]>>),
   File(<<"c3.csv">>, "resolve", <<BaseClient, BaseClient>>)}

WorkerFiles ==
  {File(<<"w1.csv">>, "resolve",
        <<[BaseWorker EXCEPT !.Skills = Str(<<"a", ",", "b">>),
                             !.AvailableSlots = Str(<<"[", "1", "]">>),
                             !.WorkerGroup = Str(<<"G">>)]>>),
   File(<<"w2.csv">>, "resolve",
        <<[BaseWorker EXCEPT !.WorkerID = IdB, !.Skills = Str(<<"a">>),
                             !.AvailableSlots = Str(<<"[", "2", "]">>),
                             !.WorkerGroup = Str(<<"g">>)],
          [BaseWorker EXCEPT !.MaxLoadPerPhase = Num(0)]>>)}

TaskFiles ==
  {File(<<"t1.csv">>, "resolve",
        <<[BaseTask EXCEPT !.TaskID = Str(<<"T">>),
                           !.RequiredSkills = Str(<<"a", ",", " ", "b">>),
                           !.PreferredPhases = Str(<<"1", "-", "2">>)]>>),
   File(<<"t2.csv">>, "resolve",
        <<[BaseTask EXCEPT !.TaskID = Str(<<"X">>), !.RequiredSkills = Str(<<"a">>),
                           !.PreferredPhases = Str(<<"[", "1", "]">>)],
          [BaseTask EXCEPT !.Duration = Str(<<"x">>)]>>)}

OtherFiles ==
  {File(<<"x.pdf">>, "reject", <<>>), File(<<"x.xlsx">>, "pending", <<>>)}

FilesOf(k) ==
  OtherFiles \cup (CASE k = "clients" -> ClientFiles
                     [] k = "workers" -> WorkerFiles
                     [] k = "tasks" -> TaskFiles)

\* the diagnostic pushed as a warning
FileError_Warning(type, file) ==
  [type |-> "file_error",
   message |-> <<"Error processing ">> \o file.name \o <<": Error: Unsupported file format">>,
   entity |-> type, field |-> NoField, severity |-> "warning", rowIndex |-> NoRow]

\* { type: "file_error", message: `Error processing ${file.name}: ${err}`,
\*   entity: type, severity: "error" }
FileError(type, file) ==
  [type |-> "file_error",
   message |-> <<"Error processing ">> \o file.name \o <<": Error: Unsupported file format">>,
   entity |-> type, field |-> NoField, severity |-> "error", rowIndex |-> NoRow]

\* initialState of appReducer and the useState defaults of Main
InitApp ==
  /\ main \in {"useState", "useReducer"}
  /\ clients = <<>> /\ workers = <<>> /\ tasks = <<>>
  /\ validationErrors = <<>>
  /\ rules = <<>>
  /\ weights = DEFAULT_WEIGHTS
  /\ isUploading = FALSE
  /\ closure = <<>>
  /\ events = 0
  /\ pc = "idle"
  /\ kind = "none"
  /\ data = <<>> /\ records = <<>> /\ errors = <<>>
  /\ phaseStr = <<>> /\ phases = <<>>
  /\ returned = <<>>

\* the collections held in state
Held == [clients |-> clients, workers |-> workers, tasks |-> tasks]

\* handleFileUpload up to its await: the file inputs are disabled while
\* isUploading, so one upload runs at a time
handleFileUpload(type, file) ==
  /\ pc = "idle"
  /\ ~isUploading
  /\ events < MaxUploads
  /\ isUploading' = TRUE
  /\ kind' = type
  /\ data' = file
  /\ closure' = Held
  /\ events' = events + 1
  /\ pc' = "parseFile"
  /\ UNCHANGED <<clients, workers, tasks, validationErrors, rules, weights, main>>
  /\ UNCHANGED <<records, errors, phaseStr, phases, returned>>

\* the collections with the one of the given kind replaced
WithCollection(cols, k, recs) ==
  CASE k = "clients" -> [cols EXCEPT !.clients = recs]
    [] k = "workers" -> [cols EXCEPT !.workers = recs]
    [] k = "tasks" -> [cols EXCEPT !.tasks = recs]

\* prev.filter((e) => e.entity !== type)
ClearEntity(prev, type) == SelectSeq(prev, LAMBDA e : e.entity # type)

\* prev.filter((e) => e.type !== "unknown_reference" && e.type !== "skill_coverage")
ClearCross(prev) ==
  SelectSeq(prev, LAMBDA e : e.type # "unknown_reference" /\ e.type # "skill_coverage")

\* the rest of the try block of the useState version, then finally; the
\* collections of the other kinds are read from the closure
ResolvedUseState ==
  LET Set(cols, args, validated) ==
        /\ clients' = cols.clients
        /\ workers' = cols.workers
        /\ tasks' = cols.tasks
        /\ validationErrors' =
             ClearCross(ClearEntity(validationErrors, kind) \o validated.errors)
             \o validateCrossReferences(args.clients, args.workers, args.tasks)
      Validated(validated) ==
        Set(WithCollection(Held, kind, validated.records),
            WithCollection(closure, kind, validated.records), validated)
  IN Validated(Validate(kind, data.rows))

\* the rest of the try block of the useReducer version, then finally:
\* SET_CLIENTS / SET_WORKERS / SET_TASKS, CLEAR_VALIDATION_ERRORS,
\* ADD_VALIDATION_ERRORS twice; state is the one the callback was created with
ResolvedUseReducer ==
  LET Set(cols, validated) ==
        /\ clients' = cols.clients
        /\ workers' = cols.workers
        /\ tasks' = cols.tasks
        /\ validationErrors' =
             ClearEntity(validationErrors, kind) \o validated.errors
             \o validateCrossReferences(closure.clients, closure.workers, closure.tasks)
      Validated(validated) == Set(WithCollection(Held, kind, validated.records), validated)
  IN Validated(Validate(kind, data.rows))

\* parseFile resolves: the try block runs to its end, then finally
ParseFileResolved ==
  /\ pc = "parseFile"
  /\ data.outcome = "resolve"
  /\ IF main = "useState" THEN ResolvedUseState ELSE ResolvedUseReducer
  /\ isUploading' = FALSE
  /\ pc' = "idle"
  /\ UNCHANGED <<kind, data, closure, events, rules, weights, main>>
  /\ UNCHANGED <<records, errors, phaseStr, phases, returned>>

\* parseFile rejects: catch, then finally
ParseFileRejected ==
  /\ pc = "parseFile"
  /\ data.outcome = "reject"
  /\ validationErrors' = validationErrors \o <<FileError(kind, data)>>
  /\ isUploading' = FALSE
  /\ pc' = "idle"
  /\ UNCHANGED <<clients, workers, tasks, kind, data, closure, events, rules, weights, main>>
  /\ UNCHANGED <<records, errors, phaseStr, phases, returned>>

NextApp ==
  \/ \E type \in Kinds : \E file \in FilesOf(type) : handleFileUpload(type, file)
  \/ ParseFileResolved
  \/ ParseFileRejected

SpecApp == InitApp /\ [][NextApp]_vars

\* the step that runs the continuation of a settled parseFile promise: the
\* one of ParseFileResolved and ParseFileRejected that the outcome selects
Settled == pc = "parseFile" /\ data.outcome # "pending" /\ pc' = "idle"

\* a settled promise has its continuation run by the event loop; a promise
\* that never settles (FileReader without onerror) has nothing to run
FairSpecApp == SpecApp /\ WF_pc(Settled)

(***************************************************************************)
(* Claims on the upload handler                                            *)
(***************************************************************************)

CrossTypes == {"unknown_reference", "skill_coverage", "phase_availability", "group_reference"}

\* the row-level and duplicate_id diagnostics of a kind
KindDiagnostics(errs, k) ==
  SelectSeq(errs, LAMBDA e : e.entity = Entity(k) /\ e.type \notin CrossTypes)

\* a step that ends a successful upload
UploadSucceeds == pc = "parseFile" /\ data.outcome = "resolve" /\ pc' = "idle"

\* C23: after any sequence of successful uploads, the row-level and
\* duplicate_id diagnostics held in state for an entity kind are exactly
\* those returned by the validator for the most recent upload of that kind:
\* every successful upload of a kind leaves exactly that upload's
\* diagnostics for the kind and leaves those of the other kinds unchanged.
C23_RowDiagnosticsReplaced ==
  [][UploadSucceeds =>
       /\ KindDiagnostics(validationErrors', kind) = Validate(kind, data.rows).errors
       /\ \A k \in Kinds \ {kind} :
            KindDiagnostics(validationErrors', k) = KindDiagnostics(validationErrors, k)]_vars

\* the cross-entity diagnostics held in state
CrossDiagnostics(errs) == SelectSeq(errs, LAMBDA e : e.type \in CrossTypes)

\* C24: after any sequence of successful uploads of any kinds, the
\* cross-entity diagnostics held in state (unknown_reference,
\* skill_coverage, phase_availability, group_reference) are exactly the
\* result of validateCrossReferences applied to the three collections
\* currently held in state, including the collection just uploaded; no
\* cross-entity diagnostic from an earlier upload remains.
C24_CrossDiagnosticsRecomputed ==
  pc = "idle" =>
    CrossDiagnostics(validationErrors) = validateCrossReferences(clients, workers, tasks)

\* a step that ends an upload whose file could not be decoded
UploadFails == pc = "parseFile" /\ data.outcome = "reject" /\ pc' = "idle"

\* the diagnostics added by the step
Added == SubSeq(validationErrors', Len(validationErrors) + 1, Len(validationErrors'))

MaxEdits == 2

\* the record replaced by the partial
Merge_Replace(record, partial) == partial

\* { ...record, ...partial }
Merge(record, partial) ==
  [f \in DOMAIN record \cup DOMAIN partial |->
     IF f \in DOMAIN partial THEN partial[f] ELSE record[f]]

\* collection.map((r) => r[idField] === id ? { ...r, ...partial } : r)
Update(collection, idField, id, partial) ==
  [i \in 1..Len(collection) |->
     IF collection[i][idField] = id THEN Merge(collection[i], partial)
     ELSE collection[i]]

\* { [field]: typeof value === "string" ? value.trim() : value }
Blur(field, value) ==
  [f \in {field} |-> IF value.t = "string" THEN Str(Trim(value.s)) ELSE value]

\* the ids a grid row can carry, and one that no record has
EditIds == {IdA, IdB, Str(<<"Z">>)}

\* the cells a grid can be left with
EditsOf(k) ==
  CASE k = "clients" ->
         {Blur("ClientName", Str(<<" ", "n">>)), Blur("PriorityLevel", Num(N(9))),
          Blur("ClientID", Str(<<"B">>))}
    [] k = "workers" ->
         {Blur("WorkerName", Str(<<"n", " ">>)), Blur("MaxLoadPerPhase", Num(0))}
    [] k = "tasks" ->
         {Blur("TaskName", Str(<<>>)), Blur("Duration", Str(<<"x">>))}

\* a state with uploaded collections, their diagnostics and the default
\* weights
InitEdit ==
  /\ main = "useReducer"
  /\ \E cf \in ClientFiles : \E wf \in WorkerFiles : \E tf \in TaskFiles :
       /\ clients = Validate("clients", cf.rows).records
       /\ workers = Validate("workers", wf.rows).records
       /\ tasks = Validate("tasks", tf.rows).records
       /\ validationErrors =
            Validate("clients", cf.rows).errors \o Validate("workers", wf.rows).errors
            \o Validate("tasks", tf.rows).errors
  /\ rules = <<Rule(<<"r">>, "coRun", [taskIds |-> <<Str(<<"T">>), Str(<<"X">>)>>])>>
  /\ weights = DEFAULT_WEIGHTS
  /\ isUploading = FALSE
  /\ closure = <<>>
  /\ events = 0
  /\ pc = "idle"
  /\ kind = "none"
  /\ data = <<>> /\ records = <<>> /\ errors = <<>>
  /\ phaseStr = <<>> /\ phases = <<>>
  /\ returned = <<>>

\* what every edit leaves alone; kind and data keep the dispatched action
Dispatched(type, id, partial) ==
  /\ pc = "idle"
  /\ events < MaxEdits
  /\ events' = events + 1
  /\ kind' = type
  /\ data' = [id |-> id, partial |-> partial]
  /\ UNCHANGED <<validationErrors, rules, weights, isUploading, main, closure, pc>>
  /\ UNCHANGED <<records, errors, phaseStr, phases, returned>>

\* case "UPDATE_CLIENT"
UPDATE_CLIENT(id, client) ==
  /\ Dispatched("UPDATE_CLIENT", id, client)
  /\ clients' = Update(clients, "ClientID", id, client)
  /\ UNCHANGED <<workers, tasks>>

\* case "UPDATE_WORKER"
UPDATE_WORKER(id, worker) ==
  /\ Dispatched("UPDATE_WORKER", id, worker)
  /\ workers' = Update(workers, "WorkerID", id, worker)
  /\ UNCHANGED <<clients, tasks>>

\* case "UPDATE_TASK"
UPDATE_TASK(id, task) ==
  /\ Dispatched("UPDATE_TASK", id, task)
  /\ tasks' = Update(tasks, "TaskID", id, task)
  /\ UNCHANGED <<clients, workers>>

NextEdit ==
  \/ \E id \in EditIds : \E client \in EditsOf("clients") : UPDATE_CLIENT(id, client)
  \/ \E id \in EditIds : \E worker \in EditsOf("workers") : UPDATE_WORKER(id, worker)
  \/ \E id \in EditIds \cup {Str(<<"T">>)} : \E task \in EditsOf("tasks") :
       UPDATE_TASK(id, task)

SpecEdit == InitEdit /\ [][NextEdit]_vars

\* the action type that edits the collection of a kind
UpdateOf(k) ==
  CASE k = "clients" -> "UPDATE_CLIENT" [] k = "workers" -> "UPDATE_WORKER"
    [] k = "tasks" -> "UPDATE_TASK"

\* the collection of a kind among three
Of(k, cs, ws, ts) ==
  CASE k = "clients" -> cs [] k = "workers" -> ws [] k = "tasks" -> ts

\* after differs from before in the supplied fields only
OnlySupplied(before, after, partial) ==
  /\ DOMAIN after = DOMAIN before \cup DOMAIN partial
  /\ \A f \in DOMAIN partial : after[f] = partial[f]
  /\ \A f \in DOMAIN before \ DOMAIN partial : after[f] = before[f]

\* the effect of an edit of kind k on the collection before and after
EditedOnly(k, before, after, id, partial) ==
  /\ Len(after) = Len(before)
  /\ \A i \in 1..Len(before) :
       IF before[i][IdField(k)] = id
       THEN OnlySupplied(before[i], after[i], partial)
       ELSE after[i] = before[i]
  /\ (\A i \in 1..Len(before) : before[i][IdField(k)] # id) => after = before

\* C26: a direct edit action (UPDATE_CLIENT, UPDATE_WORKER, UPDATE_TASK)
\* changes only the supplied fields of the records of that kind whose
\* identifier equals the action's id; every other record, the other two
\* collections, the diagnostics, the business rules and the weights are
\* unchanged, the number of records is unchanged, and when no record has
\* that identifier the collection is unchanged.
C26_EditFrame ==
  [][\A k \in Kinds :
       kind' = UpdateOf(k) =>
         /\ EditedOnly(k, Of(k, clients, workers, tasks),
                       Of(k, clients', workers', tasks'), data'.id, data'.partial)
         /\ \A o \in Kinds \ {k} :
              Of(o, clients', workers', tasks') = Of(o, clients, workers, tasks)
         /\ validationErrors' = validationErrors
         /\ rules' = rules
         /\ weights' = weights]_vars

\* an edit changed one of two client records, with diagnostics, rules and
\* weights held
C26_Witness ==
  /\ kind = "UPDATE_CLIENT"
  /\ data.id = IdB
  /\ Len(clients) = 2
  /\ clients[1].ClientID = IdA
  /\ clients[2].ClientID = IdB
  /\ clients[2].ClientName = Str(<<"n">>)
  /\ Len(validationErrors) > 0
  /\ Len(rules) > 0

(***************************************************************************)
(* Claims on failures and on the bounds of stored records                  *)
(***************************************************************************)

\* C27: no core function raises a failure for malformed data; in
\* particular validateBusinessRules returns normally for every rule list,
\* including rules whose parameter mapping has a missing key or a value of
\* the wrong shape.
C27_NoFailureRaised == pc # "TypeError"

\* a stored number that is whole and at least lo
WholeAtLeast(cell, lo) == cell.t = "number" /\ cell.n % Scale = 0 /\ cell.n >= N(lo)

\* the declared bounds of the numeric fields of a record of the kind
WithinBounds(k, rec) ==
  CASE k = "clients" ->
         WholeAtLeast(rec.PriorityLevel, 1) /\ rec.PriorityLevel.n <= N(5)
    [] k = "workers" ->
         WholeAtLeast(rec.MaxLoadPerPhase, 1) /\ rec.QualificationLevel.t # "undefined"
    [] k = "tasks" ->
         /\ rec.Duration.t = "number" /\ rec.Duration.n >= N(1)
         /\ WholeAtLeast(rec.MaxConcurrent, 1)

\* C28: every record in a row validator's output collection satisfies the
\* declared bounds of all its numeric fields: each client has an integer
\* PriorityLevel in 1..5, each worker an integer MaxLoadPerPhase >= 1 and a
\* defined QualificationLevel, each task Duration >= 1 and a defined
\* integer MaxConcurrent >= 1.
C28_RecordBounds ==
  \A i \in 1..Len(records) : WithinBounds(kind, records[i])

(***************************************************************************)
(* Claim on the phases read downstream                                     *)
(***************************************************************************)

\* the phases that validateCrossReferences, checkWorkerOverload and
\* checkPhaseSlotSaturation get from `x ? JSON.parse(x) : []`: the elements
\* of the array, none when the read throws or gives no array
PhasesUsed(x) ==
  LET Elems(v) == IF IsArray(v) THEN {v.elems[k] : k \in 1..Len(v.elems)} ELSE {}
  IN Elems(ParseOrEmpty(x))

\* the phases parsePhaseString returns for the value
PhasesParsed(x) ==
  LET Nums(ns) == {[ty |-> "number", num |-> ns[k], str |-> <<>>] : k \in 1..Len(ns)}
  IN Nums(parsePhaseString(x.s))

\* C29: for every AvailableSlots or PreferredPhases value stored by the
\* row validators, values left unparsed after an invalid_format diagnostic
\* included, the set of phases used by the phase-availability, overload
\* and phase-saturation checks equals the set parsePhaseString returns for
\* the stored value.
C29_PhasesAsParsePhaseString ==
  kind \in {"workers", "tasks"} =>
    \A i \in 1..Len(records) :
      PhasesUsed(records[i][PhaseFieldOf(kind)]) = PhasesParsed(records[i][PhaseFieldOf(kind)])

(***************************************************************************)
(* The editable grids: ClientsGrid, WorkersGrid, TasksGrid                 *)
(***************************************************************************)

\* s.toLowerCase()
toLowerCase(s) ==
  LET Lower(code) ==
        IF code >= CharCode("A") /\ code <= CharCode("Z")
        THEN Ascii[code + CharCode("a") - CharCode("A")] ELSE Ascii[code]
  IN [i \in 1..Len(s) |-> Lower(CharCode(s[i]))]

\* Object.values(record).some((val) =>
\*   String(val).toLowerCase().includes(searchQuery.toLowerCase()))
\* over the fields that were assigned
Matches(record, searchQuery) ==
  \E f \in DOMAIN record :
    /\ record[f] # Undef
    /\ IsSubstring(toLowerCase(searchQuery), toLowerCase(ToStr(record[f])))

\* the positions in the collection of the records of
\* collection.filter(...), in displayed order
filtered(collection, searchQuery) ==
  SelectSeq([j \in 1..Len(collection) |-> j],
            LAMBDA j : Matches(collection[j], searchQuery))

\* the errors prop: validationErrors.filter((e) => e.entity === "client")
GridErrors(k) == SelectSeq(validationErrors, LAMBDA e : e.entity = Entity(k))

\* errorMap.get(rowIndex): the diagnostics of the prop that carry that
\* rowIndex and a field
errorMap(errs, rowIndex) ==
  {errs[i] : i \in {j \in 1..Len(errs) :
                      /\ errs[j].rowIndex # NoRow
                      /\ errs[j].field # NoField
                      /\ errs[j].rowIndex = rowIndex}}

\* filtered.map((record, rowIndex) => errorMap.get(rowIndex) ?? new Map()):
\* the diagnostics drawn on the row displayed at the zero-based position
rowErrors(k, position) == errorMap(GridErrors(k), position)

\* the zero-based input rows from which the records of the collection
\* were produced, in the order of the collection
Origins(k, rows) ==
  SelectSeq([i \in 1..Len(rows) |-> i - 1],
            LAMBDA i : RowResult(k, rows[i + 1], i).push)

\* the search texts typed
Queries == {<<>>, <<"M">>}

\* the state after an upload of the kind whose grid is looked at
Uploaded == pc = "idle" /\ kind \in Kinds /\ data.outcome = "resolve"

\* C30: in the editable grids, the row-scoped diagnostic shown on a
\* displayed record was raised for the input row from which that record
\* was produced: for every upload and every search filter, a diagnostic
\* with rowIndex i is attached only to the record derived from input row
\* i, also when earlier rows were dropped or hidden by the filter.
C30_DiagnosticOnItsRecord ==
  Uploaded =>
    \A searchQuery \in Queries :
      LET held == Of(kind, clients, workers, tasks)
          shown == filtered(held, searchQuery)
      IN \A p \in 1..Len(shown) :
           \A e \in rowErrors(kind, p - 1) :
             e.rowIndex = Origins(kind, data.rows)[shown[p]]

====
